---- MODULE Spec2Model ----
(***************************************************************************)
(* Matchmaking engine, shared-store client and push dispatcher of the      *)
(* prosocial matchmaking backend, as a state machine.                      *)
(*                                                                         *)
(* One engine process (Node event loop).  Every async function is a task   *)
(* with a program counter; a step of a task is "the reply of the awaited   *)
(* store call arrives, the store call takes effect, and the synchronous    *)
(* continuation runs up to the next await".  Skill levels are in tenths    *)
(* (7.0 is 70).                                                            *)
(***************************************************************************)
EXTENDS Integers, Sequences, FiniteSets, TLC

\* ---------------------------------------------------------------- bounds
NumParticipants == 2
NumRounds == 2
MaxStarts == 2
MaxCancels == 1
MaxDisconnects == 1
MaxFaults == 1
MaxExpiries == 1
MaxAttempts == 1
MaxTasks == 2
MaxCalls == 1
MaxLen == 3
MaxNotifies == 2
MaxStamp == 2
NumMatchIds == 2
\* config.matchmaking.maxQueueSize as MAX_QUEUE_SIZE sets it (1000 when unset)
maxQueueSize == 1
NumOutcomes == 2
MaxSockets == 3

Participants == 1..NumParticipants
Rounds == 1..NumRounds
\* the skillLevel each participant sends with start_matchmaking, in tenths
SkillOf == <<30, 90, 60>>
\* search objects are numbered in the order startMatchmaking creates them
MaxSid == MaxStarts
Sids == 1..MaxSid

\* ------------------------------------------------------ program constants
skillMatchingThreshold == 15
minSearchAttempts == 10
DefaultSkill == 70
DisconnectRound == 0

VARIABLES
  activeSearches,   \* Engine.activeSearches: participant -> search object (0 = absent)
  searchRec,        \* heap of search objects: sid -> [p, r, sk, attempts], and the
                    \* history flag cancelled: cancelMatchmaking deleted it from the map
  matchTimeouts,    \* Engine.matchTimeouts: participant -> timer handle (0 = absent)
  pendingTimers,    \* armed, not yet fired or cleared setTimeout handles
  scanners,         \* live setInterval handles of startContinuousSearch
  tasks,            \* in-flight async invocations
  queue,            \* store: queue:round:<n> sorted sets, in score order
  status,           \* store: participant:<id>:status hashes
  matches,          \* match records built by the Engine, by match id
  lock,             \* store: matchlock:round:<n> (<<0,0>> = key absent)
  stats,            \* store: stats:<day> counters
  connectedClients, \* Dispatcher.connectedClients: participant -> session (0 = none)
  sent,             \* events pushed to each participant's client, in order
  result,           \* last value startMatchmaking returned for each participant
  curSid,           \* history: the participant's latest search
  budget,           \* counters that bound the environment
  dropped,          \* history: what the participant was doing when its session dropped
  probe,            \* a direct call of findBestSkillMatch: arguments and value
  request           \* a start request on its way through an entry point

vars == <<activeSearches, searchRec, matchTimeouts, pendingTimers, scanners,
          tasks, queue, status, matches, lock, stats, connectedClients, sent,
          result, curSid, budget, dropped, probe, request>>

engineVars == <<activeSearches, searchRec, matchTimeouts, pendingTimers, scanners>>
storeVars == <<queue, status, matches, lock, stats>>

NoLock == <<0, 0>>
Abs(x) == IF x < 0 THEN -x ELSE x

\* --------------------------------------------------------- pure helpers

\* RedisService.removeFromQueue: the first entry of the participant is removed
RECURSIVE removeFromQueue(_, _)
removeFromQueue(q, p) ==
  IF q = <<>> THEN <<>>
  ELSE IF Head(q).p = p THEN Tail(q)
  ELSE <<Head(q)>> \o removeFromQueue(Tail(q), p)

\* RedisService.getQueueEntries(queueKey, excludeParticipantId)
getQueueEntries(q, exclude) ==
  SelectSeq(q, LAMBDA e : exclude = 0 \/ e.p # exclude)

\* Array.prototype.reduce without initial value, keeping the closest skill
closestBySkill(s, cands) ==
  LET F[i \in 1..Len(cands)] ==
        IF i = 1 THEN cands[1]
        ELSE IF Abs(cands[i].sk - s) < Abs(F[i-1].sk - s) THEN cands[i] ELSE F[i-1]
  IN F[Len(cands)]

NoEntry == [p |-> 0, sk |-> 0, sid |-> 0]

\* findBestSkillMatch with the window test written as a strict comparison
findBestSkillMatch_strict(s, cands) ==
  IF Len(cands) = 0 THEN NoEntry
  ELSE LET suitable == SelectSeq(cands, LAMBDA c : Abs(c.sk - s) < skillMatchingThreshold)
       IN IF Len(suitable) = 0 THEN closestBySkill(s, cands) ELSE suitable[1]

\* no candidate inside the window means no candidate at all
findBestSkillMatch_window(s, cands) ==
  IF Len(cands) = 0 THEN NoEntry
  ELSE LET suitable == SelectSeq(cands, LAMBDA c : Abs(c.sk - s) <= skillMatchingThreshold)
       IN IF Len(suitable) = 0 THEN NoEntry ELSE suitable[1]

\* MatchmakingEngine.findBestSkillMatch
findBestSkillMatch(s, cands) ==
  IF Len(cands) = 0 THEN NoEntry
  ELSE LET suitable == SelectSeq(cands, LAMBDA c : Abs(c.sk - s) <= skillMatchingThreshold)
       IN IF Len(suitable) = 0 THEN closestBySkill(s, cands) ELSE suitable[1]

\* WebSocketService.sendToParticipant
sendToParticipant(snt, p, payload) ==
  IF p \in Participants /\ connectedClients[p] # 0
  THEN [snt EXCEPT ![p] = Append(@, payload)]
  ELSE snt

\* the two views of a human match carry each other's role
notifyMatchFound_swapped(snt, m, mid) ==
  IF m.isAI
  THEN sendToParticipant(snt, m.p1,
         [ev |-> "match_found", mid |-> mid, role |-> "participant1",
          opp |-> m.opp, oppSk |-> m.oppSk, isAI |-> TRUE, g |-> curSid[m.p1]])
  ELSE sendToParticipant(
         sendToParticipant(snt, m.p1,
           [ev |-> "match_found", mid |-> mid, role |-> "participant2",
            opp |-> m.p2, oppSk |-> m.oppSk, isAI |-> FALSE, g |-> curSid[m.p1]]),
         m.p2,
         [ev |-> "match_found", mid |-> mid, role |-> "participant1",
          opp |-> m.p1, oppSk |-> DefaultSkill, isAI |-> FALSE, g |-> curSid[m.p2]])

\* WebSocketService.notifyMatchFound
notifyMatchFound(snt, m, mid) ==
  IF m.isAI
  THEN sendToParticipant(snt, m.p1,
         [ev |-> "match_found", mid |-> mid, role |-> "participant1",
          opp |-> m.opp, oppSk |-> m.oppSk, isAI |-> TRUE, g |-> curSid[m.p1]])
  ELSE sendToParticipant(
         sendToParticipant(snt, m.p1,
           [ev |-> "match_found", mid |-> mid, role |-> "participant1",
            opp |-> m.p2, oppSk |-> m.oppSk, isAI |-> FALSE, g |-> curSid[m.p1]]),
         m.p2,
         [ev |-> "match_found", mid |-> mid, role |-> "participant2",
          opp |-> m.p1, oppSk |-> DefaultSkill, isAI |-> FALSE, g |-> curSid[m.p2]])

\* DatabaseService.getActiveMatchForParticipant
getActiveMatchForParticipant(p, r) ==
  \E i \in 1..Len(matches) :
     matches[i].db /\ matches[i].r = r /\ (matches[i].p1 = p \/ matches[i].p2 = p)

\* clearTimeout(matchTimeouts.get(p)); matchTimeouts.delete(p)
clearTimeoutOf(p) == pendingTimers \ {matchTimeouts[p]}

Upd(t, u) == (tasks \ {t}) \cup {u}

\* room for one more in-flight invocation
CanSpawn == Cardinality(tasks) < MaxTasks

NoProbe == [s |-> 0, cands |-> <<>>, out |-> NoEntry, done |-> FALSE,
            again |-> NoEntry, done2 |-> FALSE]

\* JavaScript values of a request body; numbers are held in tenths
\* (15 is 1.5), strings as sequences of characters
Undefined == [t |-> "undefined", v |-> 0, s |-> <<>>]
Null == [t |-> "null", v |-> 0, s |-> <<>>]
NaN == [t |-> "NaN", v |-> 0, s |-> <<>>]
Num(v) == [t |-> "number", v |-> v, s |-> <<>>]
Str(s) == [t |-> "string", v |-> 0, s |-> s]
Bool(b) == [t |-> "boolean", v |-> IF b THEN 1 ELSE 0, s |-> <<>>]

\* no request received yet
EmptyBody == [roundNumber |-> Undefined, skillLevel |-> Undefined, treatmentGroup |-> Undefined]
NoCall == [made |-> FALSE, roundNumber |-> Undefined, skillLevel |-> Undefined,
           treatmentGroup |-> Undefined]
NoRequest == [via |-> "none", stage |-> "idle", raw |-> EmptyBody, body |-> EmptyBody,
              reply |-> "none", call |-> NoCall]

\* the services after construction, the shared store apart
ConstructedServices ==
  /\ activeSearches = [p \in Participants |-> 0]
  /\ searchRec = [s \in Sids |-> [p |-> 0, r |-> 0, sk |-> 0, attempts |-> 0, cancelled |-> FALSE]]
  /\ matchTimeouts = [p \in Participants |-> 0]
  /\ pendingTimers = {}
  /\ scanners = {}
  /\ tasks = {}
  /\ matches = <<>>
  /\ lock = [r \in Rounds |-> NoLock]
  /\ stats = [queue_joins |-> 0, human_matches |-> 0, ai_matches |-> 0]
  /\ connectedClients = [p \in Participants |-> 0]
  /\ sent = [p \in Participants |-> <<>>]
  /\ result = [p \in Participants |-> [status |-> "none", mid |-> 0]]
  /\ curSid = [p \in Participants |-> 0]
  /\ budget = [starts |-> 0, cancels |-> 0,
               disconnects |-> 0, faults |-> 0, expiries |-> 0, sids |-> 0, calls |-> 0]
  /\ dropped = [p \in Participants |-> "no"]
  /\ request = NoRequest

\* the state after the services are constructed, on an empty store
Constructed ==
  /\ ConstructedServices
  /\ queue = [r \in Rounds |-> <<>>]
  /\ status = [p \in Participants |-> [status |-> "none", matchId |-> 0]]

Init == Constructed /\ probe = NoProbe


\* ------------------------------------------------------------- task shape
NewTask(kind, p, r, sk, sid, scn, att, pc) ==
  [kind |-> kind, p |-> p, r |-> r, sk |-> sk, sid |-> sid, scn |-> scn,
   att |-> att, pc |-> pc, opp |-> 0, oppSk |-> 0, mid |-> 0]

\* lockValue = `${participantId}-${Date.now()}`: fresh for every attempt
Token(t) == <<t.sid, t.att>>

\* RedisService.setParticipantStatus: hSet merges, so matchId survives a
\* write that does not carry one
setParticipantStatus(st, p, s) == [st EXCEPT ![p].status = s]
setParticipantMatched(st, p, mid) == [st EXCEPT ![p] = [status |-> "matched", matchId |-> mid]]

\* createHumanMatch lines 418-432: matchData; g1, g2 record the search of each
\* participant during which the match was made
HumanMatch(t) ==
  [p1 |-> t.p, p2 |-> t.opp, r |-> t.r, isAI |-> FALSE, stored |-> TRUE, db |-> FALSE,
   opp |-> t.opp, oppSk |-> t.oppSk, g1 |-> curSid[t.p], g2 |-> curSid[t.opp]]

\* AIOpponentService.createAIMatch, and the canned match of createAIMatch's
\* catch block (isStored = FALSE); participant2_id is null
AIMatch(t, isStored) ==
  [p1 |-> t.p, p2 |-> 0, r |-> t.r, isAI |-> TRUE, stored |-> isStored, db |-> FALSE,
   opp |-> 0, oppSk |-> DefaultSkill, g1 |-> curSid[t.p], g2 |-> 0]

\* ------------------------------------------------- Engine.startMatchmaking

\* the duplicate-search test never finds a record
hasActiveSearch_never(p) == FALSE

\* line 33: this.activeSearches.has(participantId)
hasActiveSearch(p) == activeSearches[p] # 0

\* lines 28-50: no active-search record: create it, issue the status write
StartMatchmaking(p, r, sk) ==
  /\ budget.starts < MaxStarts /\ CanSpawn
  /\ connectedClients[p] # 0
  /\ ~hasActiveSearch(p)
  /\ LET sid == budget.sids + 1 IN
     /\ activeSearches' = [activeSearches EXCEPT ![p] = sid]
     /\ searchRec' = [searchRec EXCEPT ![sid] = [p |-> p, r |-> r, sk |-> sk, attempts |-> 0,
                                                    cancelled |-> FALSE]]
     /\ curSid' = [curSid EXCEPT ![p] = sid]
     /\ tasks' = tasks \cup {NewTask("start", p, r, sk, sid, 0, 0, "setStatus")}
     /\ budget' = [budget EXCEPT !.starts = @ + 1, !.sids = sid]
  /\ UNCHANGED <<matchTimeouts, pendingTimers, scanners, storeVars, connectedClients, sent, result, probe, dropped, request>>

\* lines 33-36: an active-search record exists
StartAlreadySearching(p) ==
  /\ connectedClients[p] # 0
  /\ hasActiveSearch(p)
  /\ result[p].status # "already_searching"
  /\ result' = [result EXCEPT ![p] = [status |-> "already_searching", mid |-> 0]]
  /\ UNCHANGED <<engineVars, tasks, storeVars, connectedClients, sent, curSid, budget, probe, dropped, request>>

\* line 46: setParticipantStatus(p, 'searching')
SetSearching(t) ==
  /\ t.kind = "start" /\ t.pc = "setStatus"
  /\ status' = setParticipantStatus(status, t.p, "searching")
  /\ tasks' = Upd(t, [t EXCEPT !.pc = "cleanup"])
  /\ UNCHANGED <<engineVars, queue, matches, lock, stats, connectedClients, sent, result, curSid, budget, probe, dropped, request>>

\* line 53: cleanupParticipantQueue(p, round)
Cleanup(t) ==
  /\ t.kind = "start" /\ t.pc = "cleanup"
  /\ queue' = [queue EXCEPT ![t.r] = removeFromQueue(@, t.p)]
  /\ tasks' = Upd(t, [t EXCEPT !.pc = "joinCheck"])
  /\ UNCHANGED <<engineVars, status, matches, lock, stats, connectedClients, sent, result, curSid, budget, probe, dropped, request>>

\* joinQueue lines 224-235: status and persistent-store checks; the caller
\* does not look at joinQueue's return value and goes on to line 57
JoinCheck(t) ==
  /\ t.kind = "start" /\ t.pc = "joinCheck"
  /\ tasks' = Upd(t, [t EXCEPT !.pc =
        IF status[t.p].status = "matched" \/ getActiveMatchForParticipant(t.p, t.r)
        THEN "acquire" ELSE "add"])
  /\ UNCHANGED <<engineVars, storeVars, connectedClients, sent, result, curSid, budget, probe, dropped, request>>

\* ZADD key score member with score = Date.now(): a new member goes to the
\* end of the score order, a member that is already there only has its
\* score replaced
zAdd(q, e) == Append(SelectSeq(q, LAMBDA x : x # e), e)

\* RedisService.addToQueue without its status check
addToQueue_unguarded(q, st, e) ==
  zAdd(q, e)

\* RedisService.addToQueue; the entry's joinedAt stamp is its sid field
addToQueue(q, st, e) ==
  IF st[e.p].status = "matched" THEN q ELSE zAdd(q, e)

\* RedisService.getQueueSize: ZCARD
getQueueSize(q) == Len(q)

QueueEntry(t) == [p |-> t.p, sk |-> t.sk, sid |-> t.sid]

\* joinQueue lines 248-251: addToQueue, then the queue_joins counter
Add(t) ==
  /\ t.kind = "start" /\ t.pc = "add"
  /\ queue' = [queue EXCEPT ![t.r] = addToQueue(@, status, QueueEntry(t))]
  /\ stats' = [stats EXCEPT !.queue_joins = @ + 1]
  /\ tasks' = Upd(t, [t EXCEPT !.pc = "acquire"])
  /\ UNCHANGED <<engineVars, status, matches, lock, connectedClients, sent, result, curSid, budget, probe, dropped, request>>

\* ------------------------------------------------ Engine.findImmediateMatch

\* RedisService.acquireLock: SET key value NX PX
acquireLock(l, tok) == IF l = NoLock THEN tok ELSE l

\* the release deletes the key whatever its value
releaseLock_any(l, tok) == NoLock

\* RedisService.releaseLock: compare-and-delete script
releaseLock(l, tok) == IF l = tok THEN NoLock ELSE l

\* RedisService.acquireLock line 603: result === 'OK'
acquireLockReply(l) == l = NoLock

\* RedisService.releaseLock line 627: result === 1
releaseLockReply(l, tok) == l = tok

\* lines 131-135
Acquire(t) ==
  /\ t.pc = "acquire"
  /\ lock' = [lock EXCEPT ![t.r] = acquireLock(@, Token(t))]
  /\ tasks' = Upd(t, [t EXCEPT !.pc = IF lock'[t.r] = Token(t) THEN "read" ELSE "return"])
  /\ UNCHANGED <<engineVars, queue, status, matches, stats, connectedClients, sent, result, curSid, budget, probe, dropped, request>>

\* the self-match guard never trips
selfMatch_off(a, b) == FALSE

\* createHumanMatch lines 399-402: the self-match guard
selfMatch(a, b) == a = b

\* lines 141-162: read the queue without self, select, enter createHumanMatch
ReadQueue(t) ==
  /\ t.pc = "read"
  /\ LET waiting == getQueueEntries(queue[t.r], t.p)
         best == findBestSkillMatch(t.sk, waiting)
     IN tasks' = Upd(t,
          IF best.p = 0 \/ selfMatch(t.p, best.p)
          THEN [t EXCEPT !.pc = "finally"]
          ELSE [t EXCEPT !.pc = "createMatch", !.opp = best.p, !.oppSk = best.sk])
  /\ UNCHANGED <<engineVars, storeVars, connectedClients, sent, result, curSid, budget, probe, dropped, request>>

\* createHumanMatch lines 434-443: the match record and its mirror
CreateMatch(t) ==
  /\ t.pc = "createMatch"
  /\ matches' = Append(matches, [HumanMatch(t) EXCEPT !.db = TRUE])
  /\ tasks' = Upd(t, [t EXCEPT !.pc = "setMatched", !.mid = Len(matches) + 1])
  /\ UNCHANGED <<engineVars, queue, status, lock, stats, connectedClients, sent, result, curSid, budget, probe, dropped, request>>

\* createHumanMatch lines 446-449: both statuses, issued together
SetMatched(t) ==
  /\ t.pc = "setMatched"
  /\ status' = setParticipantMatched(setParticipantMatched(status, t.p, t.mid), t.opp, t.mid)
  /\ tasks' = Upd(t, [t EXCEPT !.pc = "dequeue"])
  /\ UNCHANGED <<engineVars, queue, matches, lock, stats, connectedClients, sent, result, curSid, budget, probe, dropped, request>>

\* createHumanMatch lines 452-456: both removals, issued together
Dequeue(t) ==
  /\ t.pc = "dequeue"
  /\ queue' = [queue EXCEPT ![t.r] = removeFromQueue(removeFromQueue(@, t.p), t.opp)]
  /\ tasks' = Upd(t, [t EXCEPT !.pc = "release"])
  /\ UNCHANGED <<engineVars, status, matches, lock, stats, connectedClients, sent, result, curSid, budget, probe, dropped, request>>

\* createHumanMatch line 459 and findImmediateMatch line 165: the
\* human_matches counter, then the release after a successful pair (the
\* release of line 173 that follows finds the token gone)
Release(t) ==
  /\ t.kind # "direct" /\ t.pc = "release"
  /\ stats' = [stats EXCEPT !.human_matches = @ + 1]
  /\ lock' = [lock EXCEPT ![t.r] = releaseLock(@, Token(t))]
  /\ tasks' = Upd(t, [t EXCEPT !.pc = "return"])
  /\ UNCHANGED <<engineVars, queue, status, matches, connectedClients, sent, result, curSid, budget, probe, dropped, request>>

\* createHumanMatch called on its own with two queue records
CallCreateHumanMatch(a, b, r) ==
  /\ budget.calls < MaxCalls /\ CanSpawn
  /\ tasks' = tasks \cup {[NewTask("direct", a, r, SkillOf[a], 0, 0, budget.calls + 1, "guard")
                             EXCEPT !.opp = b, !.oppSk = SkillOf[b]]}
  /\ budget' = [budget EXCEPT !.calls = @ + 1]
  /\ UNCHANGED <<engineVars, storeVars, connectedClients, sent, result, curSid, dropped, probe, request>>

\* createHumanMatch lines 395-402: equal ids raise 'Self-match attempted'
\* before anything is written
SelfMatchGuard(t) ==
  /\ t.kind = "direct" /\ t.pc = "guard"
  /\ IF selfMatch(t.p, t.opp)
     THEN /\ tasks' = tasks \ {t}
          /\ result' = [result EXCEPT ![t.p] = [status |-> "fault", mid |-> 0]]
     ELSE /\ tasks' = Upd(t, [t EXCEPT !.pc = "createMatch"])
          /\ UNCHANGED result
  /\ UNCHANGED <<engineVars, storeVars, connectedClients, sent, curSid, budget, dropped, probe, request>>

\* createHumanMatch lines 459-462: the human_matches counter, then the
\* match is returned to the direct caller
HumanMatchReturned(t) ==
  /\ t.kind = "direct" /\ t.pc = "release"
  /\ stats' = [stats EXCEPT !.human_matches = @ + 1]
  /\ result' = [result EXCEPT ![t.p] = [status |-> "active", mid |-> t.mid]]
  /\ tasks' = tasks \ {t}
  /\ UNCHANGED <<engineVars, queue, status, matches, lock, connectedClients, sent, curSid,
                 budget, dropped, probe, request>>

\* the finally block leaves the lock alone
Finally_skips(t) ==
  /\ t.pc = "finally"
  /\ tasks' = Upd(t, [t EXCEPT !.pc = "return"])
  /\ UNCHANGED <<engineVars, storeVars, connectedClients, sent, result, curSid, budget, probe, dropped, request>>

\* line 173: the release of the finally block when no match was made
Finally(t) ==
  /\ t.pc = "finally"
  /\ lock' = [lock EXCEPT ![t.r] = releaseLock(@, Token(t))]
  /\ tasks' = Upd(t, [t EXCEPT !.pc = "return"])
  /\ UNCHANGED <<engineVars, queue, status, matches, stats, connectedClients, sent, result, curSid, budget, probe, dropped, request>>

\* ------------------------------------- startMatchmaking after the scan

\* lines 58-67: immediate match: clear the record, invoke the callback
StartMatched(t) ==
  /\ t.kind = "start" /\ t.pc = "return" /\ t.mid # 0
  /\ activeSearches' = [activeSearches EXCEPT ![t.p] = 0]
  /\ sent' = notifyMatchFound(sent, matches[t.mid], t.mid)
  /\ result' = [result EXCEPT ![t.p] = [status |-> "active", mid |-> t.mid]]
  /\ tasks' = tasks \ {t}
  /\ UNCHANGED <<searchRec, matchTimeouts, pendingTimers, scanners, storeVars, connectedClients, curSid, budget, probe, dropped, request>>

\* lines 69-73: no match: start the scanner, arm the fallback timer; the
\* queue-position read of line 77 is issued
StartSearching(t) ==
  /\ t.kind = "start" /\ t.pc = "return" /\ t.mid = 0
  /\ scanners' = scanners \cup {t.sid}
  /\ pendingTimers' = pendingTimers \cup {t.sid}
  /\ matchTimeouts' = [matchTimeouts EXCEPT ![t.p] = t.sid]
  /\ tasks' = Upd(t, [t EXCEPT !.pc = "position"])
  /\ UNCHANGED <<activeSearches, searchRec, storeVars, connectedClients, sent, result, curSid, budget, probe, dropped, request>>

\* lines 75-79: the queue position is read and {status: 'searching'} returned
StartPosition(t) ==
  /\ t.kind = "start" /\ t.pc = "position"
  /\ result' = [result EXCEPT ![t.p] = [status |-> "searching", mid |-> 0]]
  /\ tasks' = tasks \ {t}
  /\ UNCHANGED <<engineVars, storeVars, connectedClients, sent, curSid, budget, probe, dropped, request>>

\* ------------------------------------------ Engine.startContinuousSearch

\* the ticks the model follows step by step: the first MaxAttempts of a
\* search, and as many from the one that reaches minSearchAttempts
TickAllowed(n) ==
  \/ n < MaxAttempts
  \/ n >= minSearchAttempts - 1 /\ n < minSearchAttempts - 1 + MaxAttempts

\* lines 269-278: a tick that finds a record counts an attempt on it
TickFire(s) ==
  /\ s \in scanners /\ CanSpawn
  /\ LET p == searchRec[s].p
         obj == activeSearches[p]
     IN /\ obj # 0
        /\ TickAllowed(searchRec[obj].attempts)
        /\ searchRec' = [searchRec EXCEPT ![obj].attempts = @ + 1]
        /\ tasks' = tasks \cup {NewTask("tick", p, searchRec[s].r, searchRec[s].sk, obj, s,
                                        searchRec[obj].attempts + 1, "t_status")}
  /\ UNCHANGED <<activeSearches, matchTimeouts, pendingTimers, scanners, storeVars,
                 connectedClients, sent, result, curSid, budget, probe, dropped, request>>

\* lines 270-273: a tick that finds no record stops the scanner
TickStop(s) ==
  /\ s \in scanners
  /\ activeSearches[searchRec[s].p] = 0
  /\ scanners' = scanners \ {s}
  /\ UNCHANGED <<activeSearches, searchRec, matchTimeouts, pendingTimers, tasks, storeVars,
                 connectedClients, sent, result, curSid, budget, probe, dropped, request>>

\* lines 282-288
TickStatus(t) ==
  /\ t.kind = "tick" /\ t.pc = "t_status"
  /\ IF status[t.p].status \in {"matched", "matching"}
     THEN /\ scanners' = scanners \ {t.scn}
          /\ activeSearches' = [activeSearches EXCEPT ![t.p] = 0]
          /\ tasks' = tasks \ {t}
     ELSE /\ tasks' = Upd(t, [t EXCEPT !.pc = "t_db"])
          /\ UNCHANGED <<scanners, activeSearches>>
  /\ UNCHANGED <<searchRec, matchTimeouts, pendingTimers, storeVars, connectedClients, sent, result, curSid, budget, probe, dropped, request>>

\* the most recent active match of (p, r) in the persistent store
latestDbMatch(p, r) ==
  CHOOSE i \in 1..Len(matches) :
     /\ matches[i].db /\ matches[i].r = r /\ (matches[i].p1 = p \/ matches[i].p2 = p)
     /\ \A j \in 1..Len(matches) :
          (matches[j].db /\ matches[j].r = r /\ (matches[j].p1 = p \/ matches[j].p2 = p)) => j <= i

\* lines 291-305
TickDb(t) ==
  /\ t.kind = "tick" /\ t.pc = "t_db"
  /\ IF getActiveMatchForParticipant(t.p, t.r)
     THEN /\ scanners' = scanners \ {t.scn}
          /\ activeSearches' = [activeSearches EXCEPT ![t.p] = 0]
          /\ tasks' = Upd(t, [t EXCEPT !.pc = "t_sync", !.mid = latestDbMatch(t.p, t.r)])
     ELSE /\ tasks' = Upd(t, [t EXCEPT !.pc = "acquire"])
          /\ UNCHANGED <<scanners, activeSearches>>
  /\ UNCHANGED <<searchRec, matchTimeouts, pendingTimers, storeVars, connectedClients, sent, result, curSid, budget, probe, dropped, request>>

\* line 299
TickSync(t) ==
  /\ t.kind = "tick" /\ t.pc = "t_sync"
  /\ status' = setParticipantMatched(status, t.p, t.mid)
  /\ tasks' = tasks \ {t}
  /\ UNCHANGED <<engineVars, queue, matches, lock, stats, connectedClients, sent, result, curSid, budget, probe, dropped, request>>

\* lines 309-326: after the scan
TickAfterFind(t) ==
  /\ t.kind = "tick" /\ t.pc = "return"
  /\ IF t.mid # 0
     THEN /\ scanners' = scanners \ {t.scn}
          /\ activeSearches' = [activeSearches EXCEPT ![t.p] = 0]
          /\ pendingTimers' = clearTimeoutOf(t.p)
          /\ matchTimeouts' = [matchTimeouts EXCEPT ![t.p] = 0]
          /\ sent' = notifyMatchFound(sent, matches[t.mid], t.mid)
     ELSE UNCHANGED <<scanners, activeSearches, pendingTimers, matchTimeouts, sent>>
  /\ tasks' = IF searchRec[t.sid].attempts >= minSearchAttempts
              THEN Upd(t, [t EXCEPT !.pc = "t_activity"])
              ELSE tasks \ {t}
  /\ UNCHANGED <<searchRec, storeVars, connectedClients, result, curSid, budget, probe, dropped, request>>

\* checkQueueActivity lines 375-383: more than one entry in the round queue;
\* every entry of a run is younger than five minutes
checkQueueActivity(q, p) == Len(q) > 1

\* lines 327-332
TickActivity(t) ==
  /\ t.kind = "tick" /\ t.pc = "t_activity"
  /\ IF ~checkQueueActivity(queue[t.r], t.p)
     THEN /\ scanners' = scanners \ {t.scn}
          /\ tasks' = Upd(t, [t EXCEPT !.pc = "ai_cleanup", !.mid = 0])
     ELSE /\ tasks' = tasks \ {t}
          /\ UNCHANGED scanners
  /\ UNCHANGED <<activeSearches, searchRec, matchTimeouts, pendingTimers, storeVars,
                 connectedClients, sent, result, curSid, budget, probe, dropped, request>>

\* the ticks of scanner s up to the one before minSearchAttempts, taken as one
\* step: each found the record, the status not matched, no match in the
\* persistent store, the lock free and nobody else in the queue, and left
\* nothing behind but its count (lines 269-310)
QuietTicks(s) ==
  /\ s \in scanners
  /\ LET p == searchRec[s].p
         obj == activeSearches[p]
     IN /\ obj # 0
        /\ searchRec[obj].attempts < minSearchAttempts - 1
        /\ status[p].status \notin {"matched", "matching"}
        /\ ~getActiveMatchForParticipant(p, searchRec[s].r)
        /\ lock[searchRec[s].r] = NoLock
        /\ getQueueEntries(queue[searchRec[s].r], p) = <<>>
        /\ \A t \in tasks : ~(t.kind = "tick" /\ t.scn = s)
        /\ searchRec' = [searchRec EXCEPT ![obj].attempts = minSearchAttempts - 1]
  /\ UNCHANGED <<activeSearches, matchTimeouts, pendingTimers, scanners, tasks, storeVars,
                 connectedClients, sent, result, curSid, budget, probe, dropped, request>>

\* -------------------------------------------- Engine.setAIFallbackTimeout

\* the timer's callback goes on without looking for the record
TimerFire_unchecked(s) ==
  /\ s \in pendingTimers /\ CanSpawn
  /\ pendingTimers' = pendingTimers \ {s}
  /\ tasks' = tasks \cup {NewTask("timer", searchRec[s].p, searchRec[s].r, searchRec[s].sk,
                                  s, 0, 0, "ai_cleanup")}
  /\ UNCHANGED <<activeSearches, searchRec, matchTimeouts, scanners, storeVars,
                 connectedClients, sent, result, curSid, budget, probe, dropped, request>>

\* lines 354-358: the timer fires and finds an active-search record
TimerFire(s) ==
  /\ s \in pendingTimers /\ CanSpawn
  /\ activeSearches[searchRec[s].p] # 0
  /\ pendingTimers' = pendingTimers \ {s}
  /\ tasks' = tasks \cup {NewTask("timer", searchRec[s].p, searchRec[s].r, searchRec[s].sk,
                                  s, 0, 0, "ai_cleanup")}
  /\ UNCHANGED <<activeSearches, searchRec, matchTimeouts, scanners, storeVars,
                 connectedClients, sent, result, curSid, budget, probe, dropped, request>>

\* line 355: the timer fires and finds no record
TimerNoop(s) ==
  /\ s \in pendingTimers
  /\ activeSearches[searchRec[s].p] = 0
  /\ pendingTimers' = pendingTimers \ {s}
  /\ UNCHANGED <<activeSearches, searchRec, matchTimeouts, scanners, tasks, storeVars,
                 connectedClients, sent, result, curSid, budget, probe, dropped, request>>

\* ----------------------------------------------------- Engine.createAIMatch

\* lines 482-489: dequeue self, clear the timer
AiCleanup(t) ==
  /\ t.pc = "ai_cleanup"
  /\ queue' = [queue EXCEPT ![t.r] = removeFromQueue(@, t.p)]
  /\ pendingTimers' = clearTimeoutOf(t.p)
  /\ matchTimeouts' = [matchTimeouts EXCEPT ![t.p] = 0]
  /\ tasks' = Upd(t, [t EXCEPT !.pc = "ai_createMatch"])
  /\ UNCHANGED <<activeSearches, searchRec, scanners, status, matches, lock, stats,
                 connectedClients, sent, result, curSid, budget, probe, dropped, request>>

\* lines 492-501: the match record and its mirror
AiCreateMatch(t) ==
  /\ t.pc = "ai_createMatch"
  /\ matches' = Append(matches, [AIMatch(t, TRUE) EXCEPT !.db = TRUE])
  /\ tasks' = Upd(t, [t EXCEPT !.pc = "ai_setMatched", !.mid = Len(matches) + 1])
  /\ UNCHANGED <<engineVars, queue, status, lock, stats, connectedClients, sent, result, curSid, budget, probe, dropped, request>>

\* lines 504-507
AiSetMatched(t) ==
  /\ t.pc = "ai_setMatched"
  /\ status' = setParticipantMatched(status, t.p, t.mid)
  /\ tasks' = Upd(t, [t EXCEPT !.pc = "ai_incr"])
  /\ UNCHANGED <<engineVars, queue, matches, lock, stats, connectedClients, sent, result, curSid, budget, probe, dropped, request>>

\* what the caller of createAIMatch does with the returned match:
\* line 85 (catch block of startMatchmaking) returns it; lines 333-337
\* (scanner) and 359-363 (fallback timer) clear the record and notify
AiReturned(t, m, mid) ==
  /\ activeSearches' = IF t.kind = "start" THEN activeSearches
                       ELSE [activeSearches EXCEPT ![t.p] = 0]
  /\ sent' = IF t.kind = "start" THEN sent ELSE notifyMatchFound(sent, m, mid)
  /\ result' = IF t.kind = "start"
               THEN [result EXCEPT ![t.p] = [status |-> "active", mid |-> mid]]
               ELSE result
  /\ tasks' = tasks \ {t}

\* line 510-513: the ai_matches counter, then the match is returned
AiIncr(t) ==
  /\ t.pc = "ai_incr"
  /\ stats' = [stats EXCEPT !.ai_matches = @ + 1]
  /\ AiReturned(t, matches[t.mid], t.mid)
  /\ UNCHANGED <<searchRec, matchTimeouts, pendingTimers, scanners, queue, status, matches, lock,
                 connectedClients, curSid, budget, probe, dropped, request>>

\* -------------------------------------------------- Engine.cancelMatchmaking

\* handleCancelMatchmaking -> cancelMatchmaking lines 94-107
CancelMatchmaking(p, r) ==
  /\ budget.cancels < MaxCancels /\ CanSpawn
  /\ curSid[p] # 0 /\ r = searchRec[curSid[p]].r
  /\ activeSearches' = [activeSearches EXCEPT ![p] = 0]
  /\ searchRec' = IF activeSearches[p] # 0
                  THEN [searchRec EXCEPT ![activeSearches[p]].cancelled = TRUE]
                  ELSE searchRec
  /\ pendingTimers' = clearTimeoutOf(p)
  /\ matchTimeouts' = [matchTimeouts EXCEPT ![p] = 0]
  /\ tasks' = tasks \cup {NewTask("cancel", p, r, 0, 0, 0, 0, "c_dequeue")}
  /\ budget' = [budget EXCEPT !.cancels = @ + 1]
  /\ UNCHANGED <<scanners, storeVars, connectedClients, sent, result, curSid, probe, dropped, request>>

\* line 107: queue:round:0 of the disconnect path holds nothing
CancelDequeue(t) ==
  /\ t.kind \in {"cancel", "disc"} /\ t.pc = "c_dequeue"
  /\ queue' = IF t.r \in Rounds THEN [queue EXCEPT ![t.r] = removeFromQueue(@, t.p)] ELSE queue
  /\ tasks' = Upd(t, [t EXCEPT !.pc = "c_status"])
  /\ UNCHANGED <<engineVars, status, matches, lock, stats, connectedClients, sent, result, curSid, budget, probe, dropped, request>>

Cancelled(p) ==
  [ev |-> "matchmaking_cancelled", mid |-> 0, role |-> "", opp |-> 0,
   oppSk |-> 0, isAI |-> FALSE, g |-> curSid[p]]

\* line 110, then handleCancelMatchmaking lines 221-225
CancelStatus(t) ==
  /\ t.kind \in {"cancel", "disc"} /\ t.pc = "c_status"
  /\ status' = setParticipantStatus(status, t.p, "cancelled")
  /\ sent' = IF t.kind = "cancel" THEN [sent EXCEPT ![t.p] = Append(@, Cancelled(t.p))] ELSE sent
  /\ tasks' = tasks \ {t}
  /\ UNCHANGED <<engineVars, queue, matches, lock, stats, connectedClients, result, curSid, budget, probe, dropped, request>>

\* ------------------------------------------------------------- Dispatcher

\* handleParticipantRegistration lines 104-123
Register(p) ==
  /\ connectedClients[p] = 0
  /\ activeSearches[p] = 0 /\ \A t \in tasks : t.p # p
  /\ connectedClients' = [connectedClients EXCEPT ![p] = 1]
  /\ dropped' = [dropped EXCEPT ![p] = "no"]
  /\ UNCHANGED <<engineVars, tasks, storeVars, sent, result, curSid, budget, probe, request>>

\* handleDisconnection lines 372-392: the session is removed, the status
\* write is issued
Disconnect(p) ==
  /\ budget.disconnects < MaxDisconnects /\ CanSpawn
  /\ connectedClients[p] # 0
  /\ connectedClients' = [connectedClients EXCEPT ![p] = 0]
  /\ tasks' = tasks \cup {NewTask("disc", p, DisconnectRound, 0, 0, 0, 0, "d_status")}
  /\ budget' = [budget EXCEPT !.disconnects = @ + 1]
  /\ dropped' = [dropped EXCEPT ![p] =
        IF activeSearches[p] # 0 /\ \A t \in tasks : t.p # p THEN "searching" ELSE "other"]
  /\ UNCHANGED <<engineVars, storeVars, sent, result, curSid, probe, request>>

\* lines 389-396: status 'disconnected', then cancelMatchmaking(p, 0)
DisconnectStatus(t) ==
  /\ t.kind = "disc" /\ t.pc = "d_status"
  /\ status' = setParticipantStatus(status, t.p, "disconnected")
  /\ activeSearches' = [activeSearches EXCEPT ![t.p] = 0]
  /\ pendingTimers' = clearTimeoutOf(t.p)
  /\ matchTimeouts' = [matchTimeouts EXCEPT ![t.p] = 0]
  /\ tasks' = Upd(t, [t EXCEPT !.pc = "c_dequeue"])
  /\ UNCHANGED <<searchRec, scanners, queue, matches, lock, stats, connectedClients, sent, result, curSid, budget, probe, dropped, request>>

\* ------------------------------------------------------------ environment

\* the PX expiry of matchlock:round:<n> (5 s) passes while the key is set
LockExpire(r) ==
  /\ budget.expiries < MaxExpiries
  /\ lock[r] # NoLock
  /\ lock' = [lock EXCEPT ![r] = NoLock]
  /\ budget' = [budget EXCEPT !.expiries = @ + 1]
  /\ UNCHANGED <<engineVars, tasks, queue, status, matches, stats, connectedClients, sent, result, curSid, probe, dropped, request>>

\* the catch block of startMatchmaking keeps the active-search record
StartFault_keepsRecord(t) ==
  /\ budget.faults < MaxFaults
  /\ t.kind = "start" /\ t.pc \in {"setStatus", "joinCheck", "add", "position"}
  /\ tasks' = Upd(t, [t EXCEPT !.pc = "ai_cleanup"])
  /\ budget' = [budget EXCEPT !.faults = @ + 1]
  /\ UNCHANGED <<activeSearches, searchRec, matchTimeouts, pendingTimers, scanners, storeVars,
                 connectedClients, sent, result, curSid, dropped, probe, request>>

\* a store call awaited directly in startMatchmaking's try block is rejected
\* (setParticipantStatus line 46, the calls of joinQueue line 54, the
\* queue-position read line 77): the catch block drops the record and falls
\* back to createAIMatch
StartFault(t) ==
  /\ budget.faults < MaxFaults
  /\ t.kind = "start" /\ t.pc \in {"setStatus", "joinCheck", "add", "position"}
  /\ activeSearches' = [activeSearches EXCEPT ![t.p] = 0]
  /\ tasks' = Upd(t, [t EXCEPT !.pc = "ai_cleanup"])
  /\ budget' = [budget EXCEPT !.faults = @ + 1]
  /\ UNCHANGED <<searchRec, matchTimeouts, pendingTimers, scanners, storeVars,
                 connectedClients, sent, result, curSid, dropped, probe, request>>

\* a store call is rejected where the engine swallows the error:
\* cleanupParticipantQueue (lines 604-612) only logs it, and
\* findImmediateMatch (lines 171-181) releases the lock and returns null
\* when the queue read or the match write fails
SwallowedFault(t) ==
  /\ budget.faults < MaxFaults
  /\ \/ t.kind = "start" /\ t.pc = "cleanup"
     \/ t.kind \in {"start", "tick"} /\ t.pc \in {"read", "createMatch"}
  /\ tasks' = Upd(t, [t EXCEPT !.pc = IF t.pc = "cleanup" THEN "joinCheck" ELSE "finally",
                                 !.opp = 0, !.oppSk = 0])
  /\ budget' = [budget EXCEPT !.faults = @ + 1]
  /\ UNCHANGED <<engineVars, storeVars, connectedClients, sent, result, curSid, dropped, probe, request>>

\* a store call made while findImmediateMatch holds the lock is rejected:
\* the queue read (lines 141-144), or a call of createHumanMatch (createMatch,
\* the status writes, the removals, the counter), which rethrows (lines
\* 464-467); the finally block of line 171 runs and null is returned
FindFault(t) ==
  /\ budget.faults < MaxFaults
  /\ t.kind \in {"start", "tick"}
  /\ t.pc \in {"read", "createMatch", "setMatched", "dequeue", "release"}
  /\ tasks' = Upd(t, [t EXCEPT !.pc = "finally", !.opp = 0, !.oppSk = 0, !.mid = 0])
  /\ budget' = [budget EXCEPT !.faults = @ + 1]
  /\ UNCHANGED <<engineVars, storeVars, connectedClients, sent, result, curSid, dropped, probe, request>>

\* the error of the rejected store call leaves createAIMatch
AiFault_raises(t) ==
  /\ budget.faults < MaxFaults
  /\ t.pc \in {"ai_createMatch", "ai_setMatched", "ai_incr"}
  /\ tasks' = tasks \ {t}
  /\ result' = IF t.kind = "start"
               THEN [result EXCEPT ![t.p] = [status |-> "fault", mid |-> 0]]
               ELSE result
  /\ budget' = [budget EXCEPT !.faults = @ + 1]
  /\ UNCHANGED <<engineVars, storeVars, connectedClients, sent, curSid, dropped, probe, request>>

\* a store call of createAIMatch (lines 495, 504, 510) is rejected: the catch
\* block (lines 515-540) returns a canned match that is stored nowhere
AiFault(t) ==
  /\ budget.faults < MaxFaults
  /\ t.pc \in {"ai_createMatch", "ai_setMatched", "ai_incr"}
  /\ matches' = Append(matches, AIMatch(t, FALSE))
  /\ AiReturned(t, AIMatch(t, FALSE), Len(matches) + 1)
  /\ budget' = [budget EXCEPT !.faults = @ + 1]
  /\ UNCHANGED <<searchRec, matchTimeouts, pendingTimers, scanners, queue, status, lock, stats,
                 connectedClients, curSid, dropped, probe, request>>

\* ------------------------------------------- persistent store unavailable

\* ------------------------------------------ Dispatcher.handleMatchUpdate

\* RedisService.getMatch returns a non-empty hash
matchExists(mid) == mid \in 1..Len(matches) /\ matches[mid].stored

\* the update goes to every participant
updateRecipients_all(m) == Participants

\* handleMatchUpdate lines 273-298: both ids when participant2_id is set,
\* participant1_id alone otherwise
updateRecipients(m) == IF m.p2 # 0 THEN {m.p1, m.p2} ELSE {m.p1}

matchUpdate(mid) == [ev |-> "match_update", mid |-> mid]
matchNotFound(mid) == [ev |-> "error", mid |-> mid]

\* handleMatchUpdate: a connected client s sends match_update for mid
MatchUpdate(s, mid) ==
  /\ budget.calls < MaxCalls
  /\ connectedClients[s] # 0
  /\ sent' = IF ~matchExists(mid)
             THEN [sent EXCEPT ![s] = Append(@, matchNotFound(mid))]
             ELSE [p \in Participants |->
                     IF p \in updateRecipients(matches[mid]) /\ connectedClients[p] # 0
                     THEN Append(sent[p], matchUpdate(mid)) ELSE sent[p]]
  /\ budget' = [budget EXCEPT !.calls = @ + 1]
  /\ UNCHANGED <<engineVars, tasks, storeVars, connectedClients, result, curSid, dropped,
                 probe, request>>

\* joinQueue line 231: the status check passed and
\* DatabaseService.getActiveMatchForParticipant rejects; joinQueue rethrows
\* (lines 256-259) into the catch block of startMatchmaking
JoinSinkFault(t) ==
  /\ budget.faults < MaxFaults
  /\ t.kind = "start" /\ t.pc = "joinCheck"
  /\ status[t.p].status # "matched"
  /\ activeSearches' = [activeSearches EXCEPT ![t.p] = 0]
  /\ tasks' = Upd(t, [t EXCEPT !.pc = "ai_cleanup"])
  /\ budget' = [budget EXCEPT !.faults = @ + 1]
  /\ UNCHANGED <<searchRec, matchTimeouts, pendingTimers, scanners, storeVars,
                 connectedClients, sent, result, curSid, dropped, probe, request>>

\* createHumanMatch lines 437-443: createTournamentMatch rejects, the match
\* stays in the shared store only
MirrorFault(t) ==
  /\ budget.faults < MaxFaults
  /\ t.pc = "createMatch"
  /\ matches' = Append(matches, HumanMatch(t))
  /\ tasks' = Upd(t, [t EXCEPT !.pc = "setMatched", !.mid = Len(matches) + 1])
  /\ budget' = [budget EXCEPT !.faults = @ + 1]
  /\ UNCHANGED <<engineVars, queue, status, lock, stats, connectedClients, sent, result,
                 curSid, dropped, probe, request>>

\* createAIMatch lines 495-501: createTournamentMatch rejects
AiMirrorFault(t) ==
  /\ budget.faults < MaxFaults
  /\ t.pc = "ai_createMatch"
  /\ matches' = Append(matches, AIMatch(t, TRUE))
  /\ tasks' = Upd(t, [t EXCEPT !.pc = "ai_setMatched", !.mid = Len(matches) + 1])
  /\ budget' = [budget EXCEPT !.faults = @ + 1]
  /\ UNCHANGED <<engineVars, queue, status, lock, stats, connectedClients, sent, result,
                 curSid, dropped, probe, request>>

\* startContinuousSearch lines 291-305: the check rejects, the tick goes on
TickSinkFault(t) ==
  /\ budget.faults < MaxFaults
  /\ t.kind = "tick" /\ t.pc = "t_db"
  /\ tasks' = Upd(t, [t EXCEPT !.pc = "acquire"])
  /\ budget' = [budget EXCEPT !.faults = @ + 1]
  /\ UNCHANGED <<engineVars, storeVars, connectedClients, sent, result, curSid, dropped, probe, request>>

\* --------------------------------------------------------- specifications

Clients ==
  \/ \E p \in Participants : Register(p)
  \/ \E p \in Participants, r \in Rounds : StartMatchmaking(p, r, SkillOf[p])
  \/ \E p \in Participants : StartAlreadySearching(p)

StartPath ==
  \/ \E t \in tasks : SetSearching(t)
  \/ \E t \in tasks : Cleanup(t)
  \/ \E t \in tasks : JoinCheck(t)
  \/ \E t \in tasks : Add(t)
  \/ \E t \in tasks : StartMatched(t)
  \/ \E t \in tasks : StartSearching(t)
  \/ \E t \in tasks : StartPosition(t)

FindPath ==
  \/ \E t \in tasks : Acquire(t)
  \/ \E t \in tasks : ReadQueue(t)
  \/ \E t \in tasks : CreateMatch(t)
  \/ \E t \in tasks : SetMatched(t)
  \/ \E t \in tasks : Dequeue(t)
  \/ \E t \in tasks : Release(t)
  \/ \E t \in tasks : Finally(t)

ScannerPath ==
  \/ \E s \in Sids : TickFire(s)
  \/ \E s \in Sids : TickStop(s)
  \/ \E t \in tasks : TickStatus(t)
  \/ \E t \in tasks : TickDb(t)
  \/ \E t \in tasks : TickSync(t)
  \/ \E t \in tasks : TickAfterFind(t)

FallbackPath ==
  \/ \E s \in Sids : TimerFire(s)
  \/ \E s \in Sids : TimerNoop(s)
  \/ \E t \in tasks : AiCleanup(t)
  \/ \E t \in tasks : AiCreateMatch(t)
  \/ \E t \in tasks : AiSetMatched(t)
  \/ \E t \in tasks : AiIncr(t)

CancelPath ==
  \/ \E p \in Participants, r \in Rounds : CancelMatchmaking(p, r)
  \/ \E t \in tasks : CancelDequeue(t)
  \/ \E t \in tasks : CancelStatus(t)

DisconnectPath ==
  \/ \E p \in Participants : Disconnect(p)
  \/ \E t \in tasks : DisconnectStatus(t)
  \/ \E t \in tasks : CancelDequeue(t)
  \/ \E t \in tasks : CancelStatus(t)

FaultPath ==
  \/ \E t \in tasks : StartFault(t)
  \/ \E t \in tasks : AiFault(t)
  \/ \E t \in tasks : SwallowedFault(t)

SinkPath ==
  \/ \E t \in tasks : JoinSinkFault(t)
  \/ \E t \in tasks : MirrorFault(t)
  \/ \E t \in tasks : AiMirrorFault(t)
  \/ \E t \in tasks : TickSinkFault(t)

DirectPath ==
  \/ \E a \in Participants, b \in Participants, r \in Rounds : CallCreateHumanMatch(a, b, r)
  \/ \E t \in tasks : SelfMatchGuard(t)
  \/ \E t \in tasks : HumanMatchReturned(t)

\* starts, scanner ticks and fallback timers of registered participants
Next == Clients \/ StartPath \/ FindPath \/ ScannerPath \/ FallbackPath

Spec == Init /\ [][Next]_vars

\* ... with cancel_matchmaking requests
\* ... with a rejected store call under the round lock
NextFindFault == Next \/ (\E t \in tasks : FindFault(t))
SpecFindFault == Init /\ [][NextFindFault]_vars

\* ... with scanners that reach minSearchAttempts
NextScan ==
  \/ Next
  \/ \E s \in Sids : QuietTicks(s)
  \/ \E t \in tasks : TickActivity(t)
SpecScan == Init /\ [][NextScan]_vars

NextCancel == Next \/ CancelPath
SpecCancel == Init /\ [][NextCancel]_vars

\* starts and fallback timers with dropped push sessions, between two scanner ticks
NextDisconnect == Clients \/ StartPath \/ FindPath \/ FallbackPath \/ DisconnectPath
SpecDisconnect == Init /\ [][NextDisconnect]_vars

\* ... with the 5 s expiry of the round lock
NextExpiry == Next \/ (\E r \in Rounds : LockExpire(r))
SpecExpiry == Init /\ [][NextExpiry]_vars

\* ... with rejected store calls
NextFault == Next \/ FaultPath
SpecFault == Init /\ [][NextFault]_vars

\* starts, with createHumanMatch also called on its own
NextSink == Next \/ SinkPath
SpecSink == Init /\ [][NextSink]_vars

\* ... with sessions that drop and clients that send match_update
NextUpdate ==
  \/ NextDisconnect
  \/ \E s \in Participants, mid \in 0..(Len(matches) + 1) : MatchUpdate(s, mid)
SpecUpdate == Init /\ [][NextUpdate]_vars

NextDirect == Clients \/ StartPath \/ FindPath \/ DirectPath
SpecDirect == Init /\ [][NextDirect]_vars

\* ------------------------------------------ findBestSkillMatch on its own

\* skill levels around the window of a 7.0 player, and a far one
SkillRange == {50, 54, 55, 70, 85, 86, 95}
OwnSkills == {70, 30}

\* waiting lists in FIFO order; the i-th entry belongs to participant i
CandidateLists ==
  UNION { { [i \in 1..n |-> [p |-> i, sk |-> f[i], sid |-> 0]] : f \in [1..n -> SkillRange] }
          : n \in 0..MaxLen }

InitSkill ==
  /\ Constructed
  /\ probe \in { [NoProbe EXCEPT !.s = s, !.cands = cs] : s \in OwnSkills, cs \in CandidateLists }

CallFindBestSkillMatch ==
  /\ ~probe.done
  /\ probe' = [probe EXCEPT !.out = findBestSkillMatch(probe.s, probe.cands), !.done = TRUE]
  /\ UNCHANGED <<engineVars, tasks, storeVars, connectedClients, sent, result, curSid, budget, dropped, request>>

CallFindBestSkillMatchAgain ==
  /\ probe.done /\ ~probe.done2
  /\ probe' = [probe EXCEPT !.again = findBestSkillMatch(probe.s, probe.cands), !.done2 = TRUE]
  /\ UNCHANGED <<engineVars, tasks, storeVars, connectedClients, sent, result, curSid, budget, dropped, request>>

NextSkill == CallFindBestSkillMatch \/ CallFindBestSkillMatchAgain

SpecSkill == InitSkill /\ [][NextSkill]_vars

\* --------------------------------------------- entry points of a start

DigitChars == <<"0", "1", "2", "3", "4", "5", "6", "7", "8", "9">>
IsDigit(c) == \E i \in 1..Len(DigitChars) : DigitChars[i] = c
DigitValue(c) == (CHOOSE i \in 1..Len(DigitChars) : DigitChars[i] = c) - 1

\* the longest prefix of decimal digits
RECURSIVE digitPrefix(_)
digitPrefix(s) ==
  IF s = <<>> \/ ~IsDigit(Head(s)) THEN <<>>
  ELSE <<Head(s)>> \o digitPrefix(Tail(s))

RECURSIVE valueOf(_)
valueOf(ds) ==
  IF ds = <<>> THEN 0
  ELSE 10 * valueOf(SubSeq(ds, 1, Len(ds) - 1)) + DigitValue(ds[Len(ds)])

RECURSIVE numeral(_)
numeral(n) ==
  IF n < 10 THEN <<DigitChars[n + 1]>>
  ELSE numeral(n \div 10) \o <<DigitChars[(n % 10) + 1]>>

\* String(x): what parseInt and parseFloat scan
toStr(x) ==
  CASE x.t = "string" -> x.s
    [] x.t = "number" ->
         numeral(x.v \div 10) \o
         (IF x.v % 10 = 0 THEN <<>> ELSE <<".", DigitChars[(x.v % 10) + 1]>>)
    [] x.t = "boolean" ->
         IF x.v = 1 THEN <<"t", "r", "u", "e">> ELSE <<"f", "a", "l", "s", "e">>
    [] OTHER -> <<x.t>>

\* parseInt: the leading run of digits, NaN when there is none; what follows
\* the digits is ignored
parseInt(x) ==
  LET ds == digitPrefix(toStr(x))
  IN IF ds = <<>> THEN NaN ELSE Num(10 * valueOf(ds))

\* parseFloat: leading digits and an optional fraction, NaN when there is
\* neither; what follows is ignored
parseFloat(x) ==
  LET str == toStr(x)
      ip == digitPrefix(str)
      rest == SubSeq(str, Len(ip) + 1, Len(str))
      fp == IF rest # <<>> /\ Head(rest) = "." THEN digitPrefix(Tail(rest)) ELSE <<>>
  IN IF ip = <<>> /\ fp = <<>> THEN NaN
     ELSE Num(10 * valueOf(ip) + (IF fp = <<>> THEN 0 ELSE DigitValue(fp[1])))

isNaN(x) == x.t = "NaN"

\* !x
Falsy(x) ==
  \/ x.t \in {"undefined", "null", "NaN"}
  \/ x.t \in {"number", "boolean"} /\ x.v = 0
  \/ x.t = "string" /\ x.s = <<>>

\* a || b
Or(a, b) == IF Falsy(a) THEN b ELSE a

\* validateTreatmentGroup: validGroups
validGroups ==
  { <<"Group 1: Control">>, <<"Group 2: Goal Setting Only">>,
    <<"Group 3: Goal Setting + AI Assistant">>,
    <<"Group 4: Goal Setting + AI Assistant + Competition">>,
    <<"Group 5: Goal Setting + AI Assistant + Blind Competition">>,
    <<"control">>, <<"goal_setting">>, <<"goal_ai">>, <<"tournament">> }

\* the limits of validateRoundNumber and validateSkillLevel
minRound == 1
maxRound == 10
minSkill == 1
maxSkill == 10

\* validateRoundNumber: a falsy body value falls through to req.params, which
\* has no roundNumber on POST /start; the body is normalised to the parsed value
validateRoundNumber(body) ==
  LET roundNumber == Or(body.roundNumber, Undefined)
      round == parseInt(roundNumber)
  IN IF roundNumber.t \in {"undefined", "null"}
     THEN [ok |-> FALSE, body |-> body]
     ELSE IF isNaN(round) \/ round.v < 10 * minRound \/ round.v > 10 * maxRound
     THEN [ok |-> FALSE, body |-> body]
     ELSE [ok |-> TRUE, body |-> [body EXCEPT !.roundNumber = round]]

\* validateSkillLevel: only a given skill level is checked and normalised
validateSkillLevel(body) ==
  IF body.skillLevel.t \in {"undefined", "null"}
  THEN [ok |-> TRUE, body |-> body]
  ELSE LET skill == parseFloat(body.skillLevel)
       IN IF isNaN(skill) \/ skill.v < 10 * minSkill \/ skill.v > 10 * maxSkill
          THEN [ok |-> FALSE, body |-> body]
          ELSE [ok |-> TRUE, body |-> [body EXCEPT !.skillLevel = skill]]

\* validateTreatmentGroup: only a given group is checked
validateTreatmentGroup(body) ==
  IF body.treatmentGroup.t = "undefined"
  THEN [ok |-> TRUE, body |-> body]
  ELSE [ok |-> body.treatmentGroup.t = "string" /\ body.treatmentGroup.s \in validGroups,
        body |-> body]

\* the argument of MatchmakingEngine.startMatchmaking, built the same way by
\* the controller (lines 25-31) and by the push handler (lines 183-189)
participantData(body) ==
  [made |-> TRUE, roundNumber |-> body.roundNumber,
   skillLevel |-> Or(body.skillLevel, Num(DefaultSkill)),
   treatmentGroup |-> Or(body.treatmentGroup, Str(<<"control">>))]

\* request bodies tried: values at, inside and outside each limit, and
\* values that only begin like a number; the participant id is well formed
RoundInputs ==
  { Undefined, Null, Num(0), Num(10), Num(15), Num(100), Num(110),
    Str(<<"7">>), Str(<<"3", "a", "b", "c">>), Str(<<"a", "b", "c">>), Str(<<>>) }
SkillInputs ==
  { Undefined, Null, Num(0), Num(10), Num(75), Num(100), Num(105),
    Str(<<"5", "a", "b", "c">>), Str(<<"a", "b", "c">>) }
GroupInputs ==
  { Undefined, Null, Str(<<"control">>), Str(<<"Group 1: Control">>), Str(<<"vip">>) }
Bodies ==
  { [roundNumber |-> rn, skillLevel |-> sk, treatmentGroup |-> tg] :
      rn \in RoundInputs, sk \in SkillInputs, tg \in GroupInputs }

\* POST /api/matchmaking/start arrives at the first validator of the route
ReceiveRest(b) ==
  /\ request.stage = "idle"
  /\ request' = [NoRequest EXCEPT !.via = "rest", !.stage = "validateRoundNumber",
                                  !.raw = b, !.body = b]
  /\ UNCHANGED <<engineVars, tasks, storeVars, connectedClients, sent, result, curSid,
                 budget, dropped, probe>>

\* a start_matchmaking event arrives at handleStartMatchmaking
ReceivePush(b) ==
  /\ request.stage = "idle"
  /\ request' = [NoRequest EXCEPT !.via = "push", !.stage = "handleStartMatchmaking",
                                  !.raw = b, !.body = b]
  /\ UNCHANGED <<engineVars, tasks, storeVars, connectedClients, sent, result, curSid,
                 budget, dropped, probe>>

\* a validator of the route runs: next() or a 400 reply
Validate(stage, out, next) ==
  /\ request.stage = stage
  /\ request' = IF out.ok
                THEN [request EXCEPT !.stage = next, !.body = out.body]
                ELSE [request EXCEPT !.stage = "done", !.reply = "400"]
  /\ UNCHANGED <<engineVars, tasks, storeVars, connectedClients, sent, result, curSid,
                 budget, dropped, probe>>

ValidateRoundNumber ==
  Validate("validateRoundNumber", validateRoundNumber(request.body), "validateSkillLevel")

ValidateSkillLevel ==
  Validate("validateSkillLevel", validateSkillLevel(request.body), "validateTreatmentGroup")

ValidateTreatmentGroup ==
  Validate("validateTreatmentGroup", validateTreatmentGroup(request.body), "startMatchmaking")

\* the required-field test shared by the controller (line 16) and the push
\* handler (line 163), then the call of the Engine
CallEngine(stage, refusal, answer) ==
  /\ request.stage = stage
  /\ request' = IF Falsy(request.body.roundNumber)
                THEN [request EXCEPT !.stage = "done", !.reply = refusal]
                ELSE [request EXCEPT !.stage = "done", !.reply = answer,
                                     !.call = participantData(request.body)]
  /\ UNCHANGED <<engineVars, tasks, storeVars, connectedClients, sent, result, curSid,
                 budget, dropped, probe>>

\* MatchmakingController.startMatchmaking
ControllerStartMatchmaking == CallEngine("startMatchmaking", "400", "200")

\* WebSocketService.handleStartMatchmaking
HandleStartMatchmaking == CallEngine("handleStartMatchmaking", "error", "matchmaking_status")

NextEntry ==
  \/ \E b \in Bodies : ReceiveRest(b)
  \/ \E b \in Bodies : ReceivePush(b)
  \/ ValidateRoundNumber
  \/ ValidateSkillLevel
  \/ ValidateTreatmentGroup
  \/ ControllerStartMatchmaking
  \/ HandleStartMatchmaking

SpecEntry == Init /\ [][NextEntry]_vars

\* ------------------------------------------ notifyMatchFound on its own

\* the isAI field is left as it came
processedIsAI_raw(x) == x

\* notifyMatchFound lines 409-413: a string isAI becomes isAI === 'true'
processedIsAI(x) ==
  IF x.t = "string" THEN Bool(x.s = <<"t", "r", "u", "e">>) ELSE x

\* the forms in which isAI reaches the dispatcher: the Engine's boolean, and
\* the string a hash of the shared store holds
IsAIForms ==
  { Bool(TRUE), Bool(FALSE), Str(<<"t", "r", "u", "e">>), Str(<<"f", "a", "l", "s", "e">>) }

\* match records handed to the callback: one participant and a roster
\* opponent, or two participants
NotifyInputs ==
  { [p1 |-> a, p2 |-> b, r |-> 1, isAI |-> x, stored |-> TRUE, db |-> FALSE,
     opp |-> b, oppSk |-> IF b = 0 THEN 65 ELSE SkillOf[b], g1 |-> 0, g2 |-> 0] :
      a \in Participants, b \in Participants \cup {0}, x \in IsAIForms }

\* the match-found callback (line 95) is invoked with m
CallNotifyMatchFound(m) ==
  /\ budget.calls < MaxNotifies
  /\ m.p1 # m.p2
  /\ matches' = Append(matches, m)
  /\ sent' = notifyMatchFound(sent, [m EXCEPT !.isAI = ~Falsy(processedIsAI(m.isAI))],
                              Len(matches) + 1)
  /\ budget' = [budget EXCEPT !.calls = @ + 1]
  /\ UNCHANGED <<engineVars, tasks, queue, status, lock, stats, connectedClients, result,
                 curSid, dropped, probe, request>>

NextNotify ==
  \/ \E p \in Participants : Register(p)
  \/ \E m \in NotifyInputs : CallNotifyMatchFound(m)

SpecNotify == Init /\ [][NextNotify]_vars

\* ------------------------------------------- queue operations on their own

\* the members a round queue can hold: an entry of a participant with the
\* joinedAt stamp addToQueue gave it
QueueMembers ==
  { [p |-> p, sk |-> SkillOf[p], sid |-> a] : p \in Participants, a \in 1..MaxStamp }

\* a sorted set holds no member twice
QueueStates ==
  { q \in UNION { [1..n -> QueueMembers] : n \in 0..MaxLen } :
      \A i, j \in 1..Len(q) : q[i] = q[j] => i = j }

StatusStates ==
  [Participants -> { [status |-> "none", matchId |-> 0],
                     [status |-> "searching", matchId |-> 0],
                     [status |-> "matched", matchId |-> 1] }]

\* any queue state, any statuses, any entry; the entry's stamp is the value
\* Date.now() has at the add
InitQueueOps ==
  /\ ConstructedServices
  /\ status \in StatusStates
  /\ \E r \in Rounds, q \in QueueStates, e \in QueueMembers :
       /\ queue = [x \in Rounds |-> IF x = r THEN q ELSE <<>>]
       /\ probe = [pc |-> "add", r |-> r, e |-> e, q0 |-> q]

CallAddToQueue ==
  /\ probe.pc = "add"
  /\ queue' = [queue EXCEPT ![probe.r] = addToQueue(@, status, probe.e)]
  /\ probe' = [probe EXCEPT !.pc = "remove"]
  /\ UNCHANGED <<engineVars, tasks, status, matches, lock, stats, connectedClients, sent, result, curSid, budget, dropped, request>>

CallRemoveFromQueue ==
  /\ probe.pc = "remove"
  /\ queue' = [queue EXCEPT ![probe.r] = removeFromQueue(@, probe.e.p)]
  /\ probe' = [probe EXCEPT !.pc = "done"]
  /\ UNCHANGED <<engineVars, tasks, status, matches, lock, stats, connectedClients, sent, result, curSid, budget, dropped, request>>

NextQueueOps == CallAddToQueue \/ CallRemoveFromQueue

SpecQueueOps == InitQueueOps /\ [][NextQueueOps]_vars

\* ------------------------------------------ match records in the shared store

\* createMatch lines 454-465: every field value becomes a string; null and
\* undefined become the empty string
redisValue_asGiven(x) == x

redisValue(x) ==
  IF x.t \in {"null", "undefined"} THEN Str(<<>>) ELSE Str(toStr(x))

MatchFields == {"id", "participant1_id", "participant2_id", "round_number", "isAI"}

\* createMatch lines 467-471: the hash written under match:<id>
matchHash(m) ==
  [k \in MatchFields \cup {"status"} |->
     IF k = "status" THEN Str(<<"a", "c", "t", "i", "v", "e">>) ELSE redisValue(m[k])]

ParticipantIdOf(p) == Str(<<"p", DigitChars[p + 1]>>)
MatchIdOf(i) == Str(<<"m", DigitChars[i + 1]>>)

\* the records createHumanMatch and AIOpponentService.createAIMatch build
EngineMatchRecords ==
  { [id |-> MatchIdOf(i), participant1_id |-> ParticipantIdOf(ab[1]),
     participant2_id |-> ParticipantIdOf(ab[2]), round_number |-> Num(10 * r),
     isAI |-> Bool(FALSE)] :
       i \in 1..NumMatchIds,
       ab \in { x \in Participants \X Participants : x[1] # x[2] },
       r \in minRound..maxRound }
  \cup
  { [id |-> MatchIdOf(i), participant1_id |-> ParticipantIdOf(a),
     participant2_id |-> Null, round_number |-> Num(10 * r),
     isAI |-> Bool(TRUE)] :
       i \in 1..NumMatchIds, a \in Participants, r \in minRound..maxRound }

NoHash == [k \in {} |-> Null]

InitMatchStore ==
  /\ Constructed
  /\ \E m \in EngineMatchRecords :
       probe = [pc |-> "create", m |-> m,
                hashes |-> [i \in 1..NumMatchIds |-> NoHash], out |-> NoHash]

\* RedisService.createMatch(m.id, m)
CallCreateMatch ==
  /\ probe.pc = "create"
  /\ probe' = [probe EXCEPT !.pc = "get",
                 !.hashes = [i \in 1..NumMatchIds |->
                               IF MatchIdOf(i) = probe.m.id THEN matchHash(probe.m) ELSE @[i]]]
  /\ UNCHANGED <<engineVars, tasks, storeVars, connectedClients, sent, result, curSid, budget, dropped, request>>

\* RedisService.getMatch(m.id): HGETALL
CallGetMatch ==
  /\ probe.pc = "get"
  /\ probe' = [probe EXCEPT !.pc = "done",
                 !.out = probe.hashes[CHOOSE i \in 1..NumMatchIds : MatchIdOf(i) = probe.m.id]]
  /\ UNCHANGED <<engineVars, tasks, storeVars, connectedClients, sent, result, curSid, budget, dropped, request>>

NextMatchStore == CallCreateMatch \/ CallGetMatch

SpecMatchStore == InitMatchStore /\ [][NextMatchStore]_vars

\* --------------------------------------- AIOpponentService.selectOpponent

\* the roster's skill levels in tenths, ai_1 .. ai_8
aiOpponents == <<72, 68, 75, 65, 78, 60, 80, 55>>

skillGap(i, s) == Abs(aiOpponents[i] - s)

\* the fallback takes the head of the roster
closestOpponents_first(s) == {1}

\* the reduce of lines 96-100 keeps a roster member at the least distance;
\* distances that are equal in decimal can differ in the last bit of their
\* binary form, so any member at the least distance can be the one kept
closestOpponents(s) ==
  { i \in 1..Len(aiOpponents) : \A j \in 1..Len(aiOpponents) : skillGap(i, s) <= skillGap(j, s) }

\* selectOpponent lines 83-101: the members it can return. A member whose
\* distance is exactly the threshold in decimal passes the <= test or not,
\* depending on the binary form of the operands (8.3 - 6.8 > 1.5); the pick
\* among the suitable members is Math.random's
selectOpponent(s, t) ==
  LET sure == { i \in 1..Len(aiOpponents) : skillGap(i, s) < t }
      edge == { i \in 1..Len(aiOpponents) : skillGap(i, s) = t }
  IN UNION { IF sure \cup B # {} THEN sure \cup B ELSE closestOpponents(s) :
               B \in SUBSET edge }

OpponentSkills == {10, 30, 45, 55, 57, 65, 69, 70, 76, 83, 95, 100}
OpponentThresholds == {0, 1, 5, 15}

InitOpponent ==
  /\ Constructed
  /\ \E s \in OpponentSkills, t \in OpponentThresholds :
       probe = [pc |-> "call", s |-> s, t |-> t, out |-> 0]

CallSelectOpponent ==
  /\ probe.pc = "call"
  /\ \E i \in selectOpponent(probe.s, probe.t) :
       probe' = [probe EXCEPT !.pc = "done", !.out = i]
  /\ UNCHANGED <<engineVars, tasks, storeVars, connectedClients, sent, result, curSid, budget, dropped, request>>

NextOpponent == CallSelectOpponent

SpecOpponent == InitOpponent /\ [][NextOpponent]_vars

\* ------------------------------------------------- helpers.retryWithBackoff

\* DatabaseService.syncMatchToDatabase passes this maxRetries
syncRetries == 3

\* what one invocation of fn does: resolve with a value or reject with an error
FnOutcomes == [ok : {TRUE}, v : 1..NumOutcomes] \cup [ok : {FALSE}, v : 1..NumOutcomes]

\* probe = [pc, maxRetries, attempt, calls, lastError, out]: calls is the log of
\* fn's outcomes, out the value returned or the error raised
InitRetry ==
  /\ Constructed
  /\ \E n \in 0..syncRetries :
       probe = [pc |-> "call", maxRetries |-> n, attempt |-> 0, calls |-> <<>>,
                lastError |-> 0, out |-> 0]

\* the catch block gives up one attempt early
lastAttempt_early(attempt, maxRetries) == attempt >= maxRetries - 1

\* line 187: if (attempt === maxRetries) throw lastError
lastAttempt(attempt, maxRetries) == attempt = maxRetries

\* lines 180-182: fn resolves, its value is returned
RetryResolve ==
  /\ probe.pc = "call" /\ probe.attempt <= probe.maxRetries
  /\ \E o \in FnOutcomes :
       /\ o.ok
       /\ probe' = [probe EXCEPT !.pc = "returned", !.calls = Append(@, o), !.out = o.v]
  /\ UNCHANGED <<engineVars, tasks, storeVars, connectedClients, sent, result, curSid, budget, dropped, request>>

\* lines 183-189: fn rejects; the error is kept and, on the last attempt, raised
RetryReject ==
  /\ probe.pc = "call" /\ probe.attempt <= probe.maxRetries
  /\ \E o \in FnOutcomes :
       /\ ~o.ok
       /\ probe' = [probe EXCEPT !.calls = Append(@, o), !.lastError = o.v,
                                 !.pc = IF lastAttempt(probe.attempt, probe.maxRetries)
                                        THEN "threw" ELSE "wait",
                                 !.out = IF lastAttempt(probe.attempt, probe.maxRetries)
                                         THEN o.v ELSE @]
  /\ UNCHANGED <<engineVars, tasks, storeVars, connectedClients, sent, result, curSid, budget, dropped, request>>

\* lines 191-193 and the loop's attempt++: the delay passes
RetryBackoff ==
  /\ probe.pc = "wait"
  /\ probe' = [probe EXCEPT !.pc = "call", !.attempt = @ + 1]
  /\ UNCHANGED <<engineVars, tasks, storeVars, connectedClients, sent, result, curSid, budget, dropped, request>>

NextRetry == RetryResolve \/ RetryReject \/ RetryBackoff

SpecRetry == InitRetry /\ [][NextRetry]_vars

\* --------------------------------------- AIOpponentService.simulateAIResponse
\* accuracies are in thousandths (850 = 0.85)

maxQuestion == 10
maxDifficulty == 10

Personalities == {"competitive", "collaborative", "analytical", "other"}

\* getAccuracyVariation lines 206-228; an unknown personality gets collaborative
getAccuracyVariation(personality) ==
  CASE personality = "competitive" ->
         [baseAccuracy |-> 850, variance |-> 100, improvesOverTime |-> TRUE,
          slowStart |-> FALSE, rushesEasy |-> TRUE]
    [] personality = "analytical" ->
         [baseAccuracy |-> 880, variance |-> 50, improvesOverTime |-> TRUE,
          slowStart |-> TRUE, rushesEasy |-> FALSE]
    [] OTHER ->
         [baseAccuracy |-> 800, variance |-> 80, improvesOverTime |-> FALSE,
          slowStart |-> FALSE, rushesEasy |-> FALSE]

\* getBehaviorPattern lines 236-258
getBehaviorPattern(personality) ==
  CASE personality = "competitive" ->
         [speedIncreasesWithScore |-> TRUE, adaptToOpponent |-> TRUE]
    [] personality = "analytical" ->
         [speedIncreasesWithScore |-> FALSE, adaptToOpponent |-> TRUE]
    [] OTHER ->
         [speedIncreasesWithScore |-> FALSE, adaptToOpponent |-> FALSE]

\* lines 283-300: the accuracy before the random variance
adjustedAccuracy(av, bp, questionNumber, difficulty, opponentCorrect) ==
  LET a0 == av.baseAccuracy - (difficulty - 5) * 20
      a1 == IF /\ bp.adaptToOpponent /\ opponentCorrect # Null
               /\ bp.speedIncreasesWithScore /\ ~Falsy(opponentCorrect)
            THEN a0 + 50 ELSE a0
      a2 == IF av.slowStart /\ questionNumber <= 3 THEN a1 - 100 ELSE a1
  IN IF av.improvesOverTime /\ questionNumber > 5 THEN a2 + 50 ELSE a2

\* (Math.random() - 0.5) * variance
Variances(av) == { x \in (0 - av.variance) .. av.variance : 2 * x >= 0 - av.variance /\ 2 * x < av.variance }

\* the accuracy is reported as computed
clamp_none(x) == x

\* line 304: Math.max(0, Math.min(1, accuracy))
clamp(x) == IF x < 0 THEN 0 ELSE IF x > 1000 THEN 1000 ELSE x

\* line 323: Math.round(accuracy * 100) / 100, here in hundredths
roundHundredths(x) == (x + 5) \div 10

\* lines 312-320: what the response time is multiplied by, in hundredths
speedFactor(av, bp, questionNumber, difficulty) ==
  LET f == IF bp.speedIncreasesWithScore /\ questionNumber > 5 THEN 80 ELSE 100
  IN IF av.rushesEasy /\ difficulty < 5 THEN (f * 70) \div 100 ELSE f

\* probe = [pc, personality, questionNumber, difficulty, opponentCorrect,
\*          adjusted, accuracy, isCorrect, speed]
InitSimulate ==
  /\ Constructed
  /\ \E pers \in Personalities, q \in 1..maxQuestion, d \in 1..maxDifficulty,
        oc \in {Null, Bool(TRUE), Bool(FALSE)} :
       probe = [pc |-> "call", personality |-> pers, questionNumber |-> q,
                difficulty |-> d, opponentCorrect |-> oc,
                adjusted |-> 0, accuracy |-> 0, isCorrect |-> FALSE, speed |-> 0]

\* simulateAIResponse lines 280-328, with the settings createAIMatch builds
\* for the personality (lines 176-180)
CallSimulateAIResponse ==
  /\ probe.pc = "call"
  /\ LET av == getAccuracyVariation(probe.personality)
         bp == getBehaviorPattern(probe.personality)
         adj == adjustedAccuracy(av, bp, probe.questionNumber, probe.difficulty,
                                 probe.opponentCorrect)
     IN \E x \in Variances(av), correct \in BOOLEAN :
          LET acc == clamp(adj + x)
          IN /\ correct => acc > 0
             /\ ~correct => acc < 1000
             /\ probe' = [probe EXCEPT !.pc = "done", !.adjusted = adj,
                                       !.accuracy = roundHundredths(acc),
                                       !.isCorrect = correct,
                                       !.speed = speedFactor(av, bp, probe.questionNumber,
                                                             probe.difficulty)]
  /\ UNCHANGED <<engineVars, tasks, storeVars, connectedClients, sent, result, curSid, budget, dropped, request>>

NextSimulate == CallSimulateAIResponse

SpecSimulate == InitSimulate /\ [][NextSimulate]_vars

\* ------------------------------------------- Dispatcher sessions by socket
\* connectedClients[p] is here the socketId of p's session (0: no session);
\* probe = [open, owner, next]: the connected sockets, the participant id each
\* socket registered (a client registers one id per socket), the next socket.id

Sockets == 1..MaxSockets

InitSession ==
  /\ Constructed
  /\ probe = [open |-> {}, owner |-> [k \in Sockets |-> 0], next |-> 1]

\* io.on('connection') lines 39-41: a socket with a fresh id
Connect ==
  /\ probe.next \in Sockets
  /\ probe' = [probe EXCEPT !.open = @ \cup {probe.next}, !.next = @ + 1]
  /\ UNCHANGED <<engineVars, tasks, storeVars, connectedClients, sent, result, curSid, budget, dropped, request>>

\* handleParticipantRegistration lines 104-123: connectedClients.set replaces
\* whatever session the participant had
RegisterSocket(k, p) ==
  /\ k \in probe.open /\ probe.owner[k] \in {0, p}
  /\ connectedClients[p] # k
  /\ connectedClients' = [connectedClients EXCEPT ![p] = k]
  /\ probe' = [probe EXCEPT !.owner[k] = p]
  /\ UNCHANGED <<engineVars, tasks, storeVars, sent, result, curSid, budget, dropped, request>>

\* the session is looked up by participant: any session of the socket's
\* participant counts
sessionsOfSocket_byOwner(k) ==
  { p \in Participants : probe.owner[k] = p /\ connectedClients[p] # 0 }

\* handleDisconnection lines 377-383: the entries whose socketId is the
\* socket's id
sessionsOfSocket(k) == { p \in Participants : connectedClients[p] = k }

\* handleDisconnection lines 372-392 for the socket of a session: the session
\* is removed, the status write is issued
SessionDisconnect(k) ==
  /\ k \in probe.open /\ CanSpawn
  /\ budget.disconnects < MaxDisconnects
  /\ \E p \in sessionsOfSocket(k) :
       /\ connectedClients' = [connectedClients EXCEPT ![p] = 0]
       /\ tasks' = tasks \cup {NewTask("disc", p, DisconnectRound, 0, 0, 0, 0, "d_status")}
       /\ dropped' = [dropped EXCEPT ![p] =
             IF activeSearches[p] # 0 /\ \A t \in tasks : t.p # p THEN "searching" ELSE "other"]
  /\ budget' = [budget EXCEPT !.disconnects = @ + 1]
  /\ probe' = [probe EXCEPT !.open = @ \ {k}]
  /\ UNCHANGED <<engineVars, storeVars, sent, result, curSid, request>>

\* handleDisconnection lines 372-385 for a socket that is no session's: the
\* loop finds nothing and nothing is done
OrphanDisconnect(k) ==
  /\ k \in probe.open
  /\ sessionsOfSocket(k) = {}
  /\ probe' = [probe EXCEPT !.open = @ \ {k}]
  /\ UNCHANGED <<engineVars, tasks, storeVars, connectedClients, sent, result, curSid, budget, dropped, request>>

SessionPath ==
  \/ Connect
  \/ \E k \in Sockets, p \in Participants : RegisterSocket(k, p)
  \/ \E k \in Sockets : SessionDisconnect(k)
  \/ \E k \in Sockets : OrphanDisconnect(k)
  \/ \E p \in Participants, r \in Rounds : StartMatchmaking(p, r, SkillOf[p])
  \/ \E t \in tasks : DisconnectStatus(t)
  \/ \E t \in tasks : CancelDequeue(t)
  \/ \E t \in tasks : CancelStatus(t)

\* sessions that are replaced and sockets that close, with starts
NextSession == SessionPath \/ StartPath \/ FindPath
SpecSession == InitSession /\ [][NextSession]_vars

\* ------------------------------------------------------------- properties

InMatch(p, i) == matches[i].p1 = p \/ matches[i].p2 = p
\* the search of p in which match i was made
SearchOf(p, i) == IF matches[i].p1 = p THEN matches[i].g1 ELSE matches[i].g2
IsFound(e) == e.ev = "match_found"
Queued(p, r) == \E i \in 1..Len(queue[r]) : queue[r][i].p = p

\* C1: within one search of a participant no two distinct matches name the
\* participant, and the participant is pushed at most one match_found.
C1_OneMatchPerSearch ==
  \A p \in Participants :
    /\ \A i, j \in 1..Len(matches) :
         (i < j /\ InMatch(p, i) /\ InMatch(p, j)) => SearchOf(p, i) # SearchOf(p, j)
    /\ \A i, j \in 1..Len(sent[p]) :
         (i < j /\ IsFound(sent[p][i]) /\ IsFound(sent[p][j])) => sent[p][i].g # sent[p][j].g

\* C2: every human match has two different participants, and a call of
\* createHumanMatch with twice the same participant id raises a fault and
\* writes no match record, no status and no queue change.
C2_NoSelfMatch ==
  [][ /\ \A i \in 1..Len(matches') : ~matches'[i].isAI => matches'[i].p1 # matches'[i].p2
      /\ \A t \in tasks :
           (t.kind = "direct" /\ t.pc = "guard" /\ t.p = t.opp /\ t \notin tasks')
             => /\ tasks' = tasks \ {t}
                /\ result'[t.p].status = "fault"
                /\ storeVars' = storeVars ]_vars

\* a self-match call was refused while a participant waited in a queue and
\* a human match existed
C2_Witness ==
  /\ \E a \in Participants : result[a].status = "fault"
  /\ \E r \in Rounds : Len(queue[r]) > 0
  /\ \E i \in 1..Len(matches) : ~matches[i].isAI

\* nothing is in flight or armed for p any more
Quiescent(p) ==
  /\ \A t \in tasks : t.p # p /\ t.opp # p
  /\ activeSearches[p] = 0
  /\ \A s \in pendingTimers \cup scanners : searchRec[s].p # p

\* C3: a participant who started a search is in the end pushed a match_found
\* or has status cancelled, disconnected or timeout, store errors included;
\* stated on the states in which nothing more can happen for the participant.
C3_ServedWhenQuiet ==
  \A p \in Participants :
    (curSid[p] # 0 /\ Quiescent(p)) =>
       \/ \E i \in 1..Len(sent[p]) : IsFound(sent[p][i])
       \/ status[p].status \in {"cancelled", "disconnected", "timeout"}

\* C4: a participant is never pushed match_found, for a match made in the
\* search it cancelled, after matchmaking_cancelled was emitted to it.
C4_NoMatchAfterCancel ==
  \A p \in Participants : \A i, j \in 1..Len(sent[p]) :
    (i < j /\ sent[p][i].ev = "matchmaking_cancelled" /\ IsFound(sent[p][j]))
      => SearchOf(p, sent[p][j].mid) # sent[p][i].g

\* findImmediateMatch lines 141-165: from the queue read to the end of createHumanMatch
InCritical(t) ==
  /\ t.kind \in {"start", "tick"}
  /\ t.pc \in {"read", "createMatch", "setMatched", "dequeue", "release"}

\* C5: for each round at most one findImmediateMatch invocation is inside
\* the pair-critical section, also when the lock's 5 s expiry passes.
C5_MutualExclusion ==
  \A r \in Rounds : Cardinality({t \in tasks : t.r = r /\ InCritical(t)}) <= 1

Dist(c, s) == Abs(c.sk - s)
InWindow(s, cs) == {i \in 1..Len(cs) : Dist(cs[i], s) <= skillMatchingThreshold}
Closest(s, cs) == {i \in 1..Len(cs) : \A j \in 1..Len(cs) : Dist(cs[i], s) <= Dist(cs[j], s)}
First(S) == CHOOSE i \in S : \A j \in S : i <= j

\* C6: findBestSkillMatch returns the FIFO-earliest candidate within the
\* threshold (a difference of exactly the threshold is inside) when there is
\* one, otherwise the FIFO-earliest of the candidates at minimal distance;
\* it returns none only for the empty list, and a second call on the same
\* arguments returns the same candidate.
C6_BestSkillMatch ==
  probe.done =>
    LET s == probe.s
        cs == probe.cands
    IN /\ (probe.out = NoEntry) <=> (Len(cs) = 0)
       /\ InWindow(s, cs) # {} => probe.out = cs[First(InWindow(s, cs))]
       /\ (InWindow(s, cs) = {} /\ Len(cs) > 0) => probe.out = cs[First(Closest(s, cs))]
       /\ probe.done2 => probe.again = probe.out

\* a candidate exactly the threshold away is chosen although a later one is closer
C6_Witness ==
  /\ probe.done
  /\ probe.out # NoEntry
  /\ Dist(probe.out, probe.s) = skillMatchingThreshold
  /\ \E i \in 1..Len(probe.cands) : Dist(probe.cands[i], probe.s) < skillMatchingThreshold

\* C7: while a participant has an active-search record, no step begins a
\* new search for it, and the startMatchmaking call that returns
\* already_searching changes no queue, status, match, lock, counter,
\* record, scanner, timer or in-flight invocation.
C7_AlreadySearching ==
  [][ \A p \in Participants :
        activeSearches[p] # 0 =>
          /\ curSid'[p] = curSid[p]
          /\ (result'[p] # result[p] /\ result'[p].status = "already_searching")
               => /\ engineVars' = engineVars
                  /\ storeVars' = storeVars
                  /\ tasks' = tasks
                  /\ sent' = sent ]_vars

\* a waiting participant, queued with scanner and timer armed, called
\* startMatchmaking again
C7_Witness ==
  \E p \in Participants :
    /\ result[p].status = "already_searching"
    /\ activeSearches[p] # 0
    /\ matchTimeouts[p] # 0
    /\ \E r \in Rounds : Queued(p, r)

\* C8: every round queue holds at most one entry per participant.
C8_QueueUnique ==
  \A r \in Rounds : \A i, j \in 1..Len(queue[r]) :
    i < j => queue[r][i].p # queue[r][j].p

\* C9: a participant has an entry in at most one round queue.
C9_OneRoundQueue ==
  \A p \in Participants : Cardinality({r \in Rounds : Queued(p, r)}) <= 1

\* the session of a waiting participant dropped and handleDisconnection has returned
DisconnectHandled(p) ==
  /\ dropped[p] = "searching"
  /\ \A t \in tasks : ~(t.kind = "disc" /\ t.p = p)

\* C10: once the disconnect of a searching participant is handled, its
\* status is disconnected and its active-search record is absent, so that a
\* fallback timer firing later finds no record.
C10_DisconnectOutcome ==
  \A p \in Participants :
    DisconnectHandled(p) =>
      /\ status[p].status = "disconnected"
      /\ activeSearches[p] = 0
\* ---------------------------------------------------------------- C11

Last(s) == s[Len(s)]

\* a startMatchmaking invocation of the later starter that paired it with a
\* participant waiting from an earlier search hands its match to the
\* dispatcher in this step
LaterStartPairs(t) ==
  /\ t.kind = "start" /\ t.pc = "return" /\ t.mid # 0
  /\ t \notin tasks'
  /\ matches[t.mid].p1 = t.p
  /\ matches[t.mid].g2 < matches[t.mid].g1

\* the match_found pushed to p in this step: its role, and not an AI match
PushedAs(p, mid, role) ==
  /\ Len(sent'[p]) = Len(sent[p]) + 1
  /\ Last(sent'[p]).ev = "match_found"
  /\ Last(sent'[p]).mid = mid
  /\ Last(sent'[p]).role = role
  /\ Last(sent'[p]).isAI = FALSE

\* C11 as stated: when B's later start pairs B with the waiting A, the
\* match_found pushed to A (the earlier searcher) has myRole participant1 and
\* the one pushed to B has myRole participant2, both with isAI false
C11_EarlierIsParticipant1 ==
  [][\A t \in tasks : LaterStartPairs(t) =>
        /\ PushedAs(matches[t.mid].p2, t.mid, "participant1")
        /\ PushedAs(t.p, t.mid, "participant2")]_vars

\* C11 amended: when B's later start pairs B with the waiting A, the
\* match_found pushed to B (the caller of createHumanMatch) has myRole
\* participant1 and the one pushed to the waiting A has myRole participant2,
\* both with isAI false
C11_CallerIsParticipant1 ==
  [][\A t \in tasks : LaterStartPairs(t) =>
        /\ PushedAs(t.p, t.mid, "participant1")
        /\ PushedAs(matches[t.mid].p2, t.mid, "participant2")]_vars

\* B's later start returned a human match with the waiting A and both were
\* pushed their view of it
C11_Witness ==
  \E b \in Participants :
    /\ result[b].status = "active" /\ result[b].mid # 0
    /\ LET m == matches[result[b].mid] IN
       /\ ~m.isAI /\ m.p1 = b /\ m.g2 < m.g1
       /\ \E i \in 1..Len(sent[b]) :
            sent[b][i].ev = "match_found" /\ sent[b][i].mid = result[b].mid
       /\ \E i \in 1..Len(sent[m.p2]) :
            sent[m.p2][i].ev = "match_found" /\ sent[m.p2][i].mid = result[b].mid

\* ---------------------------------------------------------------- C12

OtherOf(m, p) == IF m.p1 = p THEN m.p2 ELSE m.p1
SlotOf(m, p) == IF m.p1 = p THEN "participant1" ELSE "participant2"

\* C12: every match_found pushed for a human match goes to one of its two
\* participants, its opponent descriptor carries the id and the skill level
\* of the other participant, and myRole is the recipient's slot
C12_OpponentIsTheOther ==
  \A p \in Participants : \A i \in 1..Len(sent[p]) :
    LET e == sent[p][i] IN
    (e.ev = "match_found" /\ ~e.isAI) =>
       LET m == matches[e.mid] IN
       /\ p \in {m.p1, m.p2}
       /\ e.opp = OtherOf(m, p)
       /\ e.oppSk = SkillOf[OtherOf(m, p)]
       /\ e.role = SlotOf(m, p)

\* ---------------------------------------------------------------- C13

OutsideWindow(a, b) == Abs(a - b) > skillMatchingThreshold

ReadsOnlyFarEntries(t) ==
  /\ t.pc = "read" /\ t \notin tasks'
  /\ getQueueEntries(queue[t.r], t.p) # <<>>
  /\ \A i \in 1..Len(getQueueEntries(queue[t.r], t.p)) :
        OutsideWindow(getQueueEntries(queue[t.r], t.p)[i].sk, t.sk)

AddDeclined(t) ==
  /\ t.kind = "start" /\ t \notin tasks'
  /\ \/ /\ t.pc = "joinCheck"
        /\ status[t.p].status = "matched" \/ getActiveMatchForParticipant(t.p, t.r)
     \/ /\ t.pc = "add"
        /\ status[t.p].status = "matched"

\* C14: a startMatchmaking whose queue add is declined stops there: the
\* invocation is over (no pair attempt follows), no match is created, no
\* scanner or fallback timer is armed, and the participant's existing status
\* is what it returns
C14_DeclinedAddAborts ==
  [][\A t \in tasks : AddDeclined(t) =>
        /\ \A u \in tasks' : ~(u.kind = "start" /\ u.sid = t.sid)
        /\ matches' = matches
        /\ scanners' = scanners /\ pendingTimers' = pendingTimers
        /\ result'[t.p].status = status[t.p].status]_vars

\* ---------------------------------------------------------------- C15

AiPcs == {"ai_cleanup", "ai_createMatch", "ai_setMatched", "ai_incr"}

\* a store call made on behalf of the startMatchmaking invocation t, outside
\* createAIMatch, is rejected in this step
StartStepFails(t) ==
  /\ t.kind = "start" /\ t.pc \notin AiPcs
  /\ t \notin tasks'
  /\ budget'.faults = budget.faults + 1

\* the catch block of startMatchmaking is entered: record gone, createAIMatch
\* under way for the same participant and round
EntersCatch(t) ==
  /\ activeSearches'[t.p] = 0
  /\ [t EXCEPT !.pc = "ai_cleanup"] \in tasks'

\* the startMatchmaking invocation t returns in this step from its catch block
ReturnsFromCatch(t) ==
  /\ t.kind = "start" /\ t.pc \in AiPcs
  /\ \A u \in tasks' : ~(u.kind = "start" /\ u.sid = t.sid)

ReturnedAIMatch(t) ==
  /\ result'[t.p].status = "active"
  /\ result'[t.p].mid \in 1..Len(matches')
  /\ matches'[result'[t.p].mid].isAI
  /\ matches'[result'[t.p].mid].p1 = t.p

\* C15 as stated: whichever step of startMatchmaking fails (status write,
\* dequeue, enqueue, immediate scan, queue-position read), the record is
\* removed and an AI match for the participant is returned
C15_AnyFailureGivesAIMatch ==
  [][/\ \A t \in tasks : StartStepFails(t) => EntersCatch(t)
     /\ \A t \in tasks : ReturnsFromCatch(t) => ReturnedAIMatch(t)]_vars

\* C15 amended: a failure of the status write, of the enqueue (joinQueue) or
\* of the queue-position read removes the record and makes startMatchmaking
\* return an AI match for the participant; a failure inside the dequeue or
\* the immediate scan is swallowed there, and startMatchmaking goes on with
\* its record as if the dequeue was done or the scan found nobody
C15_CaughtFailureGivesAIMatch ==
  [][/\ \A t \in tasks : StartStepFails(t) =>
          IF t.pc \in {"setStatus", "joinCheck", "add", "position"}
          THEN EntersCatch(t)
          ELSE /\ activeSearches' = activeSearches
               /\ \E u \in tasks' :
                    /\ u.kind = "start" /\ u.sid = t.sid
                    /\ u.pc = IF t.pc = "cleanup" THEN "joinCheck" ELSE "finally"
     /\ \A t \in tasks : ReturnsFromCatch(t) => ReturnedAIMatch(t)]_vars

\* a startMatchmaking whose queue-position read failed has returned an AI
\* match, and the participant has no active-search record
C15_Witness ==
  \E p \in Participants :
    /\ budget.faults > 0
    /\ activeSearches[p] = 0
    /\ result[p].status = "active"
    /\ result[p].mid \in 1..Len(matches)
    /\ matches[result[p].mid].isAI /\ matches[result[p].mid].p1 = p
    /\ curSid[p] \in scanners

\* ---------------------------------------------------------------- C16

\* the createAIMatch invocation t is over after this step
AiEnds(t) ==
  /\ t.pc \in AiPcs /\ t \notin tasks'
  /\ \A u \in tasks' : ~(u.kind = t.kind /\ u.sid = t.sid /\ u.att = t.att /\ u.pc \in AiPcs)

\* the id of the match createAIMatch handed to its caller: startMatchmaking
\* returns it, the scanner and the timer pass it to the dispatcher
HandedOver(t) ==
  IF t.kind = "start" THEN result'[t.p].mid
  ELSE IF Len(sent'[t.p]) > Len(sent[t.p]) /\ Last(sent'[t.p]).ev = "match_found"
       THEN Last(sent'[t.p]).mid ELSE 0

IsAIMatchFor(m, t) ==
  /\ m.isAI /\ m.p1 = t.p /\ m.p2 = 0 /\ m.r = t.r

\* C16: createAIMatch always hands a match to its caller; when a store call
\* inside it fails, that match has isAI true, participant1 the participant,
\* no participant2, the requested round and the canned opponent
C16_AIMatchAlwaysReturned ==
  [][\A t \in tasks : AiEnds(t) =>
        /\ HandedOver(t) \in 1..Len(matches')
        /\ IsAIMatchFor(matches'[HandedOver(t)], t)
        /\ budget'.faults > budget.faults =>
              /\ ~matches'[HandedOver(t)].stored
              /\ matches'[HandedOver(t)].opp = 0
              /\ matches'[HandedOver(t)].oppSk = DefaultSkill]_vars

\* the canned match of the catch block was handed to a caller
C16_Witness ==
  \E i \in 1..Len(matches) :
    /\ matches[i].isAI /\ ~matches[i].stored
    /\ \/ result[matches[i].p1] = [status |-> "active", mid |-> i]
       \/ \E k \in 1..Len(sent[matches[i].p1]) :
            sent[matches[i].p1][k].ev = "match_found" /\ sent[matches[i].p1][k].mid = i

\* ---------------------------------------------------------------- C17

\* where an invocation goes from pc when the persistent store answers and
\* reports nothing
AfterSinkCall(pc) ==
  CASE pc = "joinCheck" -> "add"
    [] pc = "createMatch" -> "setMatched"
    [] pc = "ai_createMatch" -> "ai_setMatched"
    [] pc = "t_db" -> "acquire"
    [] OTHER -> pc

\* C17: a rejected persistent-store call does not change what the invocation
\* does next: the starter is still enqueued and keeps its search, a match
\* being created is still created
C17_SinkFailureHarmless ==
  [][\A t \in tasks : (t \notin tasks' /\ budget'.faults > budget.faults) =>
        /\ activeSearches' = activeSearches
        /\ \E u \in tasks' :
             /\ u.kind = t.kind /\ u.sid = t.sid /\ u.att = t.att
             /\ u.pc = AfterSinkCall(t.pc)
        /\ t.pc \in {"createMatch", "ai_createMatch"} => Len(matches') = Len(matches) + 1]_vars

\* ---------------------------------------------------------------- C18

\* the invocation t completes its acquireLock call in this step
Acquires(t) == t.pc = "acquire" /\ t \notin tasks'

\* the invocation t completes a releaseLock call in this step
Releases(t) == t.pc \in {"release", "finally"} /\ t.kind # "direct" /\ t \notin tasks'

\* C18: acquireLock succeeds exactly when the key is absent, and then holds
\* the caller's token; releaseLock deletes the key exactly when its value is
\* the caller's token, and a release with another token leaves the lock as
\* it is and reports false
C18_LockOwnership ==
  [][/\ \A t \in tasks : Acquires(t) =>
          /\ acquireLockReply(lock[t.r]) <=> lock[t.r] = NoLock
          /\ acquireLockReply(lock[t.r]) <=> [t EXCEPT !.pc = "read"] \in tasks'
          /\ lock'[t.r] = IF lock[t.r] = NoLock THEN Token(t) ELSE lock[t.r]
     /\ \A t \in tasks : Releases(t) =>
          /\ releaseLockReply(lock[t.r], Token(t)) <=> lock[t.r] = Token(t)
          /\ lock[t.r] = Token(t) => lock'[t.r] = NoLock
          /\ lock[t.r] # Token(t) => lock'[t.r] = lock[t.r]]_vars

\* an attempt whose lock expired and was taken by another attempt has
\* released with its own token, and the other attempt still holds the lock
C18_Witness ==
  \E t \in tasks, u \in tasks :
    /\ t.pc = "return" /\ t.mid # 0
    /\ u.mid # 0 /\ u.mid < t.mid /\ u.r = t.r
    /\ lock[t.r] = Token(u) /\ Token(u) # Token(t)
    /\ budget.expiries > 0

\* ---------------------------------------------------------------- C19

IsInteger(x) == x.t = "number" /\ x.v % 10 = 0
InRange(x, lo, hi) == x.t = "number" /\ 10 * lo <= x.v /\ x.v <= 10 * hi

\* a decimal numeral, as JSON clients send numbers in form fields
NumeralOf(x) ==
  IF x.t = "string" /\ x.s # <<>> /\ digitPrefix(x.s) = x.s THEN Num(10 * valueOf(x.s)) ELSE x

\* what the request asks for is a round 1..10, a skill level in [1, 10] when
\* one is given, and a recognised treatment group when one is given
WellFormed(b) ==
  /\ IsInteger(NumeralOf(b.roundNumber)) /\ InRange(NumeralOf(b.roundNumber), minRound, maxRound)
  /\ b.skillLevel.t \in {"undefined", "null"}
       \/ InRange(NumeralOf(b.skillLevel), minSkill, maxSkill)
  /\ b.treatmentGroup.t = "undefined"
       \/ (b.treatmentGroup.t = "string" /\ b.treatmentGroup.s \in validGroups)

\* C19: the Engine is only called with an integer round in [1, 10], a skill
\* level in [1, 10] and a recognised treatment group, from either entry
\* point; a request that is not well formed is answered with an error and
\* does not reach the Engine
C19_EngineArgsValid ==
  /\ request.call.made =>
       /\ IsInteger(request.call.roundNumber)
       /\ InRange(request.call.roundNumber, minRound, maxRound)
       /\ InRange(request.call.skillLevel, minSkill, maxSkill)
       /\ request.call.treatmentGroup.t = "string"
       /\ request.call.treatmentGroup.s \in validGroups
  /\ (request.stage = "done" /\ ~WellFormed(request.raw)) =>
       /\ ~request.call.made
       /\ request.reply \in {"400", "error"}

\* ---------------------------------------------------------------- C20

\* C20: validateRoundNumber answers 400, without calling next and without
\* touching the request, when the round number is 0, 11, or not an integer
\* (1.5, "3abc"), and calls next for the integers 1..10 and only for them
C20_RoundValidation ==
  [][request.stage = "validateRoundNumber" =>
       IF /\ IsInteger(NumeralOf(request.body.roundNumber))
          /\ InRange(NumeralOf(request.body.roundNumber), minRound, maxRound)
       THEN request'.stage = "validateSkillLevel"
       ELSE /\ request'.stage = "done" /\ request'.reply = "400"
            /\ request'.body = request.body
            /\ ~request'.call.made]_vars

\* ---------------------------------------------------------------- C21

SaysAI(x) == x \in {Bool(TRUE), Str(<<"t", "r", "u", "e">>)}
SaysHuman(x) == x \in {Bool(FALSE), Str(<<"f", "a", "l", "s", "e">>)}

\* the match_found payloads pushed to p for match mid
PushesOf(p, mid) ==
  { i \in 1..Len(sent[p]) : sent[p][i].ev = "match_found" /\ sent[p][i].mid = mid }

\* C21: a match whose isAI is true or "true" is pushed to participant1 only,
\* once at most, with myRole participant1 and the opponent descriptor of the
\* record; a match whose isAI is false or "false" is never routed as an AI
\* match: each push of it carries isAI false and the recipient's own slot
C21_AIRouting ==
  \A mid \in 1..Len(matches) : \A p \in Participants : \A i \in PushesOf(p, mid) :
    LET m == matches[mid]
        e == sent[p][i]
    IN /\ SaysAI(m.isAI) =>
            /\ p = m.p1 /\ Cardinality(PushesOf(p, mid)) = 1
            /\ e.isAI /\ e.role = "participant1"
            /\ e.opp = m.opp /\ e.oppSk = m.oppSk
       /\ SaysHuman(m.isAI) =>
            /\ ~e.isAI /\ p \in {m.p1, m.p2} /\ e.role = SlotOf(m, p)

\* a match with isAI "true" was pushed to its participant1, and a match of
\* two participants with isAI "false" was pushed to its participant2
C21_Witness ==
  /\ \E mid \in 1..Len(matches) :
       /\ matches[mid].isAI = Str(<<"t", "r", "u", "e">>)
       /\ PushesOf(matches[mid].p1, mid) # {}
  /\ \E mid \in 1..Len(matches) :
       /\ matches[mid].isAI = Str(<<"f", "a", "l", "s", "e">>)
       /\ matches[mid].p2 # 0
       /\ PushesOf(matches[mid].p2, mid) # {}

\* ---------------------------------------------------------------- C22

\* what this step pushed to p
NewlyPushed(p) == SubSeq(sent'[p], Len(sent[p]) + 1, Len(sent'[p]))

\* C22: a match_update for an id without a record is answered with an error
\* to the sender and pushed to nobody; for a stored match of two participants
\* it is pushed once to each of the two that has a session, for a stored AI
\* match once to its one participant, and to nobody outside the match
C22_UpdateRecipients ==
  [][budget'.calls > budget.calls =>
       \E s \in Participants, mid \in 0..(Len(matches) + 1) :
          IF mid \notin 1..Len(matches) \/ ~matches[mid].stored
          THEN \A p \in Participants :
                 NewlyPushed(p) = IF p = s THEN <<matchNotFound(mid)>> ELSE <<>>
          ELSE \A p \in Participants :
                 NewlyPushed(p) =
                   IF /\ p = matches[mid].p1 \/ (~matches[mid].isAI /\ p = matches[mid].p2)
                      /\ connectedClients[p] # 0
                   THEN <<matchUpdate(mid)>> ELSE <<>>]_vars

\* an update of an AI match reached its participant while another
\* participant, outside the match, had a session
C22_Witness ==
  \E mid \in 1..Len(matches), p \in Participants :
    /\ matches[mid].isAI /\ matches[mid].p1 # p /\ connectedClients[p] # 0
    /\ \E i \in 1..Len(sent[matches[mid].p1]) : sent[matches[mid].p1][i] = matchUpdate(mid)

\* ---------------------------------------------------------------- C23

HasEntry(q, p) == \E i \in 1..Len(q) : q[i].p = p
IsMember(q, e) == \E i \in 1..Len(q) : q[i] = e
AddRejected == status[probe.e.p].status = "matched"

\* C23: addToQueue(queueKey, entry) immediately followed by
\* removeFromQueue(queueKey, entry.participantId) leaves getQueueSize(queueKey)
\* at its value before the add, for any queue state and any entry, also when
\* the add is rejected because the participant's status is matched
C23_AddRemoveKeepsSize ==
  probe.pc = "done" => getQueueSize(queue[probe.r]) = getQueueSize(probe.q0)

\* C23 as amended: the size is the one before the add when the add put a new
\* member into the queue, and also when the participant had no entry before;
\* when the add put nothing new (it was rejected, or the very same member was
\* already there) and the participant had an entry, the remove takes that
\* entry and the size is one less
C23_AddRemoveSize ==
  probe.pc = "done" =>
    getQueueSize(queue[probe.r]) =
      IF \/ IsMember(probe.q0, probe.e)
         \/ AddRejected /\ HasEntry(probe.q0, probe.e.p)
      THEN getQueueSize(probe.q0) - 1
      ELSE getQueueSize(probe.q0)

\* a rejected add for a participant with an entry in the queue, followed by
\* the remove
C23_Witness ==
  /\ probe.pc = "done"
  /\ AddRejected /\ HasEntry(probe.q0, probe.e.p)
  /\ getQueueSize(queue[probe.r]) = getQueueSize(probe.q0) - 1

\* ---------------------------------------------------------------- C24

\* C24: for every match record the Engine creates, createMatch(m.id, m)
\* followed by getMatch(m.id) returns a record whose id, participant1_id,
\* participant2_id, round_number and isAI equal the values passed in, a null
\* participant2_id, the numeric round and the boolean isAI included
C24_RoundTripEqual ==
  probe.pc = "done" => \A k \in MatchFields : probe.out[k] = probe.m[k]

\* C24 as amended: the record returned holds the passed id and participant
\* ids unchanged, the empty string for a null participant2_id, the decimal
\* numeral of the round and the string 'true' or 'false' for isAI
C24_RoundTripStrings ==
  probe.pc = "done" =>
    /\ probe.out.id = probe.m.id
    /\ probe.out.participant1_id = probe.m.participant1_id
    /\ probe.out.participant2_id =
         IF probe.m.participant2_id = Null THEN Str(<<>>) ELSE probe.m.participant2_id
    /\ probe.out.round_number.t = "string"
    /\ parseInt(probe.out.round_number) = probe.m.round_number
    /\ probe.out.isAI =
         IF probe.m.isAI = Bool(TRUE) THEN Str(<<"t", "r", "u", "e">>)
         ELSE Str(<<"f", "a", "l", "s", "e">>)

\* an AI match of round 10 went through the store and came back
C24_Witness ==
  /\ probe.pc = "done"
  /\ probe.m.isAI = Bool(TRUE) /\ probe.m.participant2_id = Null
  /\ probe.m.round_number = Num(100)
  /\ probe.out.round_number = Str(<<"1", "0">>)

\* ---------------------------------------------------------------- C25

\* C25: after any sequence of operations no round queue holds more than
\* maxQueueSize entries, an enqueue into a queue that already holds
\* maxQueueSize entries being rejected
C25_QueueWithinMaxSize ==
  \A r \in Rounds : getQueueSize(queue[r]) <= maxQueueSize

\* ---------------------------------------------------------------- C26

\* C26: selectOpponent(s, t) returns a roster member whose skill is within t
\* of s whenever the roster has one, otherwise a roster member whose skill is
\* closest to s; it never returns nothing
C26_OpponentInWindowOrClosest ==
  probe.pc = "done" =>
    /\ probe.out \in 1..Len(aiOpponents)
    /\ IF \E i \in 1..Len(aiOpponents) : skillGap(i, probe.s) <= probe.t
       THEN skillGap(probe.out, probe.s) <= probe.t
       ELSE \A j \in 1..Len(aiOpponents) : skillGap(probe.out, probe.s) <= skillGap(j, probe.s)

\* no roster member is within 0.1 of skill 10.0 and the call returned ai_7
\* (8.0), the closest
C26_Witness ==
  /\ probe.pc = "done" /\ probe.s = 100 /\ probe.t = 1
  /\ probe.out = 7

\* ---------------------------------------------------------------- C27

\* a tick of scanner s begins and goes on to the status read
TickBegins(s) ==
  \E t \in tasks' \ tasks : t.kind = "tick" /\ t.scn = s /\ t.pc = "t_status"

\* the tick reads the status matched or matching
ReadsMatched(t) ==
  /\ t.kind = "tick" /\ t.pc = "t_status" /\ t \notin tasks'
  /\ status[t.p].status \in {"matched", "matching"}

\* C27: a scanner tick that begins with the participant's active-search
\* record absent, or that reads the participant's status as matched or
\* matching, makes no pair attempt, creates no match and stops the periodic
\* task; hence a tick that begins after cancelMatchmaking ended its search
\* does the same
C27_TickHonoursCancel ==
  [][/\ \A s \in scanners :
          (activeSearches[searchRec[s].p] = 0 \/ searchRec[s].cancelled) => ~TickBegins(s)
     /\ \A t \in tasks :
          ReadsMatched(t) =>
            /\ tasks' = tasks \ {t} /\ t.scn \notin scanners'
            /\ matches' = matches /\ lock' = lock]_vars

\* ---------------------------------------------------------------- C28

\* the callback of timer s starts createAIMatch in this step
TimerStarts(t) ==
  t \in tasks' \ tasks /\ t.kind = "timer" /\ t.pc = "ai_cleanup"

\* the invocation started by a timer takes a step
TimerSteps(t) == t \in tasks /\ t.kind = "timer" /\ t \notin tasks'

\* ... and that step is its last
TimerEnds(t) ==
  TimerSteps(t) /\ \A u \in tasks' : ~(u.kind = "timer" /\ u.sid = t.sid)

\* the match_found event of match mid
Announces(e, mid) == e.ev = "match_found" /\ e.mid = mid

\* C28: when a participant's AI-fallback timer fires and the participant has
\* an active-search record, exactly one AI match is created for the
\* participant, the record is deleted and the match-found callback is
\* invoked once, with that match; when the record is absent no match is
\* created, no status is written and the callback is not invoked
C28_TimerFallback ==
  [][/\ \A s \in pendingTimers :
          /\ activeSearches[searchRec[s].p] = 0 =>
                ~\E t \in tasks' \ tasks : t.kind = "timer" /\ t.sid = s
          /\ (s \notin pendingTimers' /\ tasks' = tasks) =>
                /\ activeSearches[searchRec[s].p] = 0
                /\ matches' = matches /\ status' = status /\ sent' = sent
     /\ \A t \in tasks' :
          TimerStarts(t) =>
            /\ activeSearches[t.p] # 0
            /\ t.sid \in pendingTimers \ pendingTimers'
            /\ matches' = matches /\ status' = status /\ sent' = sent
     /\ \A t \in tasks :
          TimerSteps(t) =>
            /\ Len(matches') = Len(matches) + (IF t.pc = "ai_createMatch" THEN 1 ELSE 0)
            /\ t.pc = "ai_createMatch" =>
                 /\ IsAIMatchFor(matches'[Len(matches')], t)
                 /\ \E u \in tasks' : u.kind = "timer" /\ u.sid = t.sid /\ u.mid = Len(matches')
            /\ IF TimerEnds(t)
               THEN /\ activeSearches'[t.p] = 0
                    /\ \A p \in Participants \ {t.p} : sent'[p] = sent[p]
                    /\ IF connectedClients[t.p] # 0
                       THEN /\ Len(sent'[t.p]) = Len(sent[t.p]) + 1
                            /\ Announces(Last(sent'[t.p]), t.mid)
                            /\ Last(sent'[t.p]).isAI
                       ELSE sent'[t.p] = sent[t.p]
               ELSE sent' = sent /\ activeSearches' = activeSearches]_vars

\* a fallback timer fired on a live search and the participant was told of
\* the AI match; the record is gone
C28_Witness ==
  \E i \in 1..Len(matches) :
    /\ matches[i].isAI /\ matches[i].stored
    /\ activeSearches[matches[i].p1] = 0
    /\ \E k \in 1..Len(sent[matches[i].p1]) : Announces(sent[matches[i].p1][k], i)

\* ---------------------------------------------------------------- C29

\* where an invocation of findImmediateMatch is between its acquire and its
\* return
HoldingPcs == {"read", "createMatch", "setMatched", "dequeue", "release", "finally"}

HumanMatchReturns(t) == t.pc = "release" /\ t \notin tasks'

\* a step of createHumanMatch before its last
HumanMatchSteps(t) == t.pc \in {"createMatch", "setMatched", "dequeue"} /\ t \notin tasks'

IsMatchedIn(st, p, mid) == st[p] = [status |-> "matched", matchId |-> mid]

\* C30: when createHumanMatch(a, b) returns successfully, a match record
\* with a fresh id naming a and b is in the shared store, the status of a and
\* of b is matched with that id, neither has an entry left in the round
\* queue, and the human_matches counter has grown by exactly 1
C30_HumanMatchPostcondition ==
  [][\A t \in tasks :
        /\ HumanMatchReturns(t) =>
             /\ t.mid \in 1..Len(matches')
             /\ matches'[t.mid].stored /\ ~matches'[t.mid].isAI
             /\ matches'[t.mid].p1 = t.p /\ matches'[t.mid].p2 = t.opp
             /\ IsMatchedIn(status', t.p, t.mid) /\ IsMatchedIn(status', t.opp, t.mid)
             /\ ~HasEntry(queue'[t.r], t.p) /\ ~HasEntry(queue'[t.r], t.opp)
             /\ stats'.human_matches = stats.human_matches + 1
        /\ HumanMatchSteps(t) =>
             /\ stats'.human_matches = stats.human_matches
             /\ t.pc = "createMatch" => Len(matches') = Len(matches) + 1]_vars

\* ---------------------------------------------------------------- C31

\* match i names p, and p was never told of it
Untold(p, i) ==
  /\ ~matches[i].isAI /\ InMatch(p, i)
  /\ \A k \in 1..Len(sent[p]) : ~Announces(sent[p][k], i)

\* C31: when a store call fails inside createHumanMatch the attempt returns
\* no match, and neither participant of the attempt is left stuck: once
\* nothing is in flight or armed for it any more, it has been pushed a
\* match_found
C31_PairFaultLeavesNobodyStuck ==
  /\ \A t \in tasks : t.pc = "finally" => t.mid = 0
  /\ \A p \in Participants :
       (Quiescent(p) /\ \E i \in 1..Len(matches) : Untold(p, i))
          => \E k \in 1..Len(sent[p]) : IsFound(sent[p][k])


\* ---------------------------------------------------------------- C32
\* the step on which tick t, having found nobody, tests the queue's activity
TestsActivity(t) ==
  /\ t.kind = "tick" /\ t.pc = "t_activity" /\ t.mid = 0
  /\ t \notin tasks'

\* tick t goes on to create the AI match
FallsBack(t) ==
  \E u \in tasks' \ tasks : u.kind = "tick" /\ u.scn = t.scn /\ u.pc = "ai_cleanup"

OthersQueued(p, r) == \E k \in 1..Len(queue[r]) : queue[r][k].p # p

\* C32: a tick that has counted minSearchAttempts attempts and found nobody
\* creates the AI match exactly when the round queue holds no entry of another
\* participant, and no tick creates one before its search counted
\* minSearchAttempts attempts
C32_EarlyFallback ==
  [][ /\ \A t \in tasks : TestsActivity(t) =>
            (FallsBack(t) <=> ~OthersQueued(t.p, t.r))
      /\ \A u \in tasks' \ tasks :
            (u.kind = "tick" /\ u.pc = "ai_cleanup")
               => searchRec[u.sid].attempts >= minSearchAttempts ]_vars


\* ---------------------------------------------------------------- C35
\* the step on which tick t, having handed over a human match, tests the
\* queue's activity
TestsActivityAfterMatch(t) ==
  /\ t.kind = "tick" /\ t.pc = "t_activity" /\ t.mid # 0
  /\ t \notin tasks'

\* C35: a tick on which findImmediateMatch returned a human match does not go
\* on to create an AI match, whatever its attempt count
C35_OneMatchPerTick ==
  [][ \A t \in tasks : TestsActivityAfterMatch(t) => ~FallsBack(t) ]_vars


\* ---------------------------------------------------------------- C33
Failed(k) == ~probe.calls[k].ok

\* what holds of a call of retryWithBackoff with room for `most` invocations
RetryContract(most) ==
  /\ Len(probe.calls) <= most
  /\ probe.pc = "returned" =>
        /\ probe.calls[Len(probe.calls)] = [ok |-> TRUE, v |-> probe.out]
        /\ \A k \in 1..(Len(probe.calls) - 1) : Failed(k)
  /\ probe.pc = "threw" =>
        /\ Len(probe.calls) = most
        /\ \A k \in 1..most : Failed(k)
        /\ probe.calls[most] = [ok |-> FALSE, v |-> probe.out]
  /\ (\A k \in 1..Len(probe.calls) : Failed(k)) /\ Len(probe.calls) = most
        => probe.pc = "threw"

\* C33 as stated: with maxRetries 3, fn is invoked at most 3 times, the first
\* success is returned without a further call, and the last error is raised
\* after the third failed attempt
C33_AtMostThreeCalls == probe.maxRetries = syncRetries => RetryContract(syncRetries)

\* C33: retryWithBackoff(fn, maxRetries, base) invokes fn at most
\* maxRetries + 1 times (4 for syncMatchToDatabase), returns the first success
\* without a further call, and raises the last error after attempt
\* maxRetries + 1 failed
C33_AtMostRetriesPlusOne == RetryContract(probe.maxRetries + 1)

C33_Witness ==
  /\ probe.maxRetries = syncRetries /\ probe.pc = "threw"
  /\ Len(probe.calls) = syncRetries + 1
  /\ probe.calls[syncRetries].v # probe.out


\* ---------------------------------------------------------------- C34
IsCompetitive == probe.personality = "competitive"
IsAnalytical == probe.personality = "analytical"
OpponentWasCorrect == probe.opponentCorrect = Bool(TRUE)

BaseOf(pers) ==
  IF pers = "competitive" THEN 850 ELSE IF pers = "analytical" THEN 880 ELSE 800

\* the accuracy before the variance when the personalities in `adapting` get
\* the boost for a correct opponent
ExpectedAccuracy(adapting) ==
    BaseOf(probe.personality) - (probe.difficulty - 5) * 20
  + (IF probe.personality \in adapting /\ OpponentWasCorrect THEN 50 ELSE 0)
  - (IF IsAnalytical /\ probe.questionNumber <= 3 THEN 100 ELSE 0)
  + (IF (IsCompetitive \/ IsAnalytical) /\ probe.questionNumber > 5 THEN 50 ELSE 0)

ReportedInUnitRange == probe.accuracy >= 0 /\ probe.accuracy <= 100

\* C34 as stated: the boost for a correct opponent goes to the personalities
\* that adapt to the opponent, competitive and analytical
C34_AdaptingGetBoost ==
  probe.pc = "done" =>
     /\ probe.adjusted = ExpectedAccuracy({"competitive", "analytical"})
     /\ ReportedInUnitRange

\* C34: the accuracy before the variance is baseAccuracy - (difficulty - 5) *
\* 0.02, plus 0.05 for a competitive opponent when the human was correct,
\* minus 0.10 for an analytical one on questions 1..3, plus 0.05 for a
\* competitive or analytical one after question 5; the reported accuracy is
\* in [0, 1]
C34_CompetitiveGetsBoost ==
  probe.pc = "done" =>
     /\ probe.adjusted = ExpectedAccuracy({"competitive"})
     /\ ReportedInUnitRange

C34_Witness ==
  /\ probe.pc = "done" /\ IsAnalytical /\ OpponentWasCorrect
  /\ probe.questionNumber > 5 /\ probe.adjusted > 1000 /\ probe.accuracy = 100


\* ---------------------------------------------------------------- C36
\* C36: a fallback timer that fires after the search it was armed for has
\* ended starts no AI match, also when the participant is searching again:
\* the timers that start one are those of the participant's current record
C36_TimerOfCurrentSearch ==
  [][ \A t \in tasks' : TimerStarts(t) => activeSearches[t.p] = t.sid ]_vars


\* ---------------------------------------------------------------- C37
ScannersOf(p) == { s \in scanners : searchRec[s].p = p }

\* C37: a participant has at most one live scanner, and a scanner started for
\* a search that has ended begins no tick once the participant searches again
\* (a tick that begins counts an attempt on the record and goes on to the pair
\* attempt)
C37_OneScannerPerParticipant ==
  [][ /\ \A p \in Participants : Cardinality(ScannersOf(p)) <= 1
      /\ \A s \in scanners :
           activeSearches[searchRec[s].p] # s =>
              ~TickBegins(s) ]_vars


\* ---------------------------------------------------------------- C38
\* the step on which pair attempt t selects its opponent: u is t afterwards
Selects(t, u) ==
  /\ t.pc = "read" /\ t \notin tasks'
  /\ u \in tasks' \ tasks /\ u.pc = "createMatch"
  /\ u.sid = t.sid /\ u.kind = t.kind /\ u.scn = t.scn

\* p has an active search in round r and the status searching
SearchesIn(p, r) ==
  /\ activeSearches[p] # 0
  /\ searchRec[activeSearches[p]].r = r
  /\ status[p].status = "searching"

\* C38: the opponent findImmediateMatch selects has, when selected, an
\* active-search record for that round and the status searching
C38_OpponentIsSearching ==
  [][ \A t \in tasks : \A u \in tasks' : Selects(t, u) => SearchesIn(u.opp, t.r) ]_vars


\* ---------------------------------------------------------------- C39
\* this step hands match mid to p: as a match_found push from the callback, or
\* as the result of startMatchmaking
HandsOver(p, mid) ==
  \/ \E k \in 1..Len(NewlyPushed(p)) : Announces(NewlyPushed(p)[k], mid)
  \/ result'[p] # result[p] /\ result'[p].mid = mid

HasRecord(mid) == matches'[mid].stored

\* C39: a match handed to the callback or returned from startMatchmaking has a
\* record in the shared store (a match_update for it finds the match), and the
\* participant's status is matched with its id
C39_HandedOverMatchIsStored ==
  [][ \A p \in Participants : \A mid \in 1..Len(matches') :
        HandsOver(p, mid) =>
           /\ HasRecord(mid)
           /\ status'[p] = [status |-> "matched", matchId |-> mid] ]_vars

\* the half of C39 about the record
C39_RecordOnly ==
  [][ \A p \in Participants : \A mid \in 1..Len(matches') :
        HandsOver(p, mid) => HasRecord(mid) ]_vars


\* ---------------------------------------------------------------- C40
\* socket k registered p and p's session is now another socket's
Superseded(k, p) ==
  probe.owner[k] = p /\ connectedClients[p] # 0 /\ connectedClients[p] # k

Closes(k) == k \in probe.open /\ k \notin probe'.open

\* C40: when a socket superseded by a newer registration of its participant
\* disconnects, the newer session stays, no status is written, no cancel is
\* started and the active search with its timer is left alone
C40_SupersededDisconnect ==
  [][ \A k \in Sockets : \A p \in Participants :
        (Superseded(k, p) /\ Closes(k)) =>
           /\ connectedClients' = connectedClients
           /\ status' = status
           /\ tasks' = tasks
           /\ activeSearches' = activeSearches
           /\ pendingTimers' = pendingTimers /\ queue' = queue ]_vars

\* a superseded socket has closed (no session was ever dropped) while its
\* participant, registered on a newer open socket, is searching
C40_Witness ==
  \E k \in Sockets : \E p \in Participants :
     /\ Superseded(k, p) /\ k \notin probe.open
     /\ connectedClients[p] \in probe.open
     /\ budget.disconnects = 0
     /\ activeSearches[p] # 0 /\ status[p].status = "searching"
     /\ \A t \in tasks : t.p # p

====
